---- MODULE Spec2Model ----
(***************************************************************************)
(* A model of zendb's query builder (src/src/DatabaseTableQuery.ts): the   *)
(* immutable query record behind every DatabaseTableQuery, the builder     *)
(* methods, the resolution of a chain of piped queries, the lowering to a  *)
(* SELECT statement with its bound parameters, and the shaping of the flat *)
(* driver rows back into nested results.                                   *)
(***************************************************************************)
EXTENDS Integers, Sequences, FiniteSets, TLC

VARIABLES
  heap,        \* the DatabaseTableQuery objects created so far; an index is an identity
  idCounter,   \* nextRandomId, the state of the test-mode id generator
  out,         \* what the last call returned to its caller
  db,          \* the rows stored in the tables of the database
  nheap,       \* the queries of the expression-based builder (join / inSubquery)
  nout,        \* the operation the expression-based builder emitted last
  issued,      \* the tokens the id generator returned since it was last reset
  conn,        \* the database getDb() hands out; closing it opens the next one
  cache        \* QueriesCache of a DatabaseTable: the database of each statement

vars == <<heap, idCounter, out, db, nheap, nout, issued, conn, cache>>

(***************************************************************************)
(* Bounds of the model.                                                    *)
(***************************************************************************)
MaxObjs == 3
MaxId == 4
MaxPipes == 1

(***************************************************************************)
(* JavaScript null.  A nullable field is a record [isNull, v] so that the  *)
(* two cases stay comparable.                                              *)
(***************************************************************************)
NULL == "null"

Some(x) == [isNull |-> FALSE, v |-> x]

NoneSeq == [isNull |-> TRUE, v |-> <<>>]

NoneInt == [isNull |-> TRUE, v |-> 0]

SeqSet(s) == {s[i] : i \in DOMAIN s}

(***************************************************************************)
(* The schema of the tests: table -> ordered columns, and which are        *)
(* primary.                                                                *)
(***************************************************************************)
Tables == {"users", "joinUsersTasks", "tasks"}

Columns(table) ==
  CASE table = "users" -> <<"id", "name">>
    [] table = "joinUsersTasks" -> <<"user_id", "task_id">>
    [] table = "tasks" -> <<"id", "title">>

IsPrimary(table, col) ==
  CASE table = "users" -> col = "id"
    [] table = "joinUsersTasks" -> col \in {"user_id", "task_id"}
    [] table = "tasks" -> col = "id"

Values == {"a", "b"}

PipeKind == {"many", "one", "maybeOne", "first", "maybeFirst"}

(***************************************************************************)
(* DatabaseTableQueryInternal and the object around it.                    *)
(***************************************************************************)
NoParent ==
  [isNull |-> TRUE,
   v |-> [kind |-> "", currentCol |-> "", joinCol |-> "", query |-> 0]]

NoLimit == [isNull |-> TRUE, v |-> [limit |-> NoneInt, offset |-> NoneInt]]

NoStatement == [isNull |-> TRUE, v |-> [sql |-> <<>>, params |-> <<>>, bound |-> FALSE]]

NoneStr == [isNull |-> TRUE, v |-> ""]

NoResolvedQuery ==
  [table |-> "", tableAlias |-> "", limit |-> NoneInt, offset |-> NoneInt,
   columns |-> NoneSeq, joinColumns |-> <<>>, primaryColumns |-> <<>>,
   where |-> NoneSeq, orderBy |-> NoneSeq]

NoResolved == [isNull |-> TRUE, v |-> [query |-> NoResolvedQuery, joins |-> <<>>]]

\* the constructor: the two caches of a new object are empty
NewQuery(internal) ==
  [priv |-> internal,
   preparedStatement |-> NoStatement,
   resolved |-> NoResolved,
   startId |-> 0,
   preparedOn |-> 0]

create(h, table) ==
  Append(h, NewQuery([table |-> table,
                      selection |-> NoneSeq,
                      where |-> NoneSeq,
                      limit |-> NoLimit,
                      parent |-> NoParent,
                      orderBy |-> NoneSeq]))

selectStale(h, self, selection) ==
  Append(h, [h[self] EXCEPT !.priv.selection = Some(selection)])

\* a select that adds the columns to the ones selected before
selectMerge(h, self, selection) ==
  Append(h, NewQuery([h[self].priv EXCEPT
                        !.selection = Some((IF @.isNull THEN <<>> ELSE @.v)
                                             \o selection)]))

select(h, self, selection) ==
  Append(h, NewQuery([h[self].priv EXCEPT !.selection = Some(selection)]))

whereAnd(h, self, w) ==
  Append(h, NewQuery([h[self].priv EXCEPT
                        !.where = Some((IF @.isNull THEN <<>> ELSE @.v) \o w)]))

whereInPlace(h, self, w) ==
  Append([h EXCEPT ![self].priv.where = Some(w)], h[self])

where(h, self, w) ==
  Append(h, NewQuery([h[self].priv EXCEPT !.where = Some(w)]))

\* a limit that builds its query from a fresh record and loses the ordering
limitDropsOrder(h, self, lim, offset) ==
  Append(h, NewQuery([h[self].priv EXCEPT
                        !.limit = Some([limit |-> lim, offset |-> offset]),
                        !.orderBy = NoneSeq]))

limit(h, self, lim, offset) ==
  Append(h, NewQuery([h[self].priv EXCEPT
                        !.limit = Some([limit |-> lim, offset |-> offset])]))

\* the overloads of orderBy: (column, direction?) or (term, term?, ...others)
orderByStart(arg1, arg2) ==
  IF arg1.isCol
    THEN <<<<arg1.col, IF arg2.isNull THEN "Asc" ELSE arg2.v.dir>>>>
    ELSE IF ~arg2.isNull THEN <<arg1.term, arg2.v.term>> ELSE <<arg1.term>>

orderBy(h, self, arg1, arg2, others) ==
  Append(h, NewQuery([h[self].priv EXCEPT
                        !.orderBy = Some(orderByStart(arg1, arg2) \o others)]))

pipeInternal(h, self, kind, currentCol, table, joinCol) ==
  Append(h, NewQuery([table |-> table,
                      limit |-> NoLimit,
                      selection |-> NoneSeq,
                      where |-> NoneSeq,
                      orderBy |-> NoneSeq,
                      parent |-> Some([kind |-> kind,
                                       currentCol |-> currentCol,
                                       joinCol |-> joinCol,
                                       query |-> self])]))

pipe(h, self, currentCol, table, joinCol) ==
  pipeInternal(h, self, "many", currentCol, table, joinCol)

pipeOne(h, self, currentCol, table, joinCol) ==
  pipeInternal(h, self, "one", currentCol, table, joinCol)

pipeMaybeOne(h, self, currentCol, table, joinCol) ==
  pipeInternal(h, self, "maybeOne", currentCol, table, joinCol)

pipeFirst(h, self, currentCol, table, joinCol) ==
  pipeInternal(h, self, "first", currentCol, table, joinCol)

pipeMaybeFirst(h, self, currentCol, table, joinCol) ==
  pipeInternal(h, self, "maybeFirst", currentCol, table, joinCol)

(***************************************************************************)
(* getResolved: the chain of parents of a query, outermost table first.    *)
(***************************************************************************)
primaryColumnsOf(table) ==
  LET P(col) == IsPrimary(table, col) IN SelectSeq(Columns(table), P)

\* an alias that does not depend on the depth of the query in the chain
tableAliasShared(depth) == "_" \o ToString(0)

tableAliasOf(depth) == "_" \o ToString(depth)

resolveQuery(query, parentJoinCol, depth) ==
  LET joinCol == IF query.parent.isNull THEN NoneStr ELSE Some(query.parent.v.joinCol)
      NotNull(x) == ~x.isNull
      present == SelectSeq(<<joinCol, parentJoinCol>>, NotNull)
  IN [table |-> query.table,
      tableAlias |-> tableAliasOf(depth),
      columns |-> query.selection,
      joinColumns |-> [i \in DOMAIN present |-> present[i].v],
      primaryColumns |-> primaryColumnsOf(query.table),
      limit |-> IF query.limit.isNull THEN NoneInt ELSE query.limit.v.limit,
      offset |-> IF query.limit.isNull THEN NoneInt ELSE query.limit.v.offset,
      where |-> query.where,
      orderBy |-> query.orderBy]

RECURSIVE resolveInternal(_, _, _, _)
resolveInternal(h, self, parentJoinCol, depth) ==
  LET query == h[self].priv
      resolved == resolveQuery(query, parentJoinCol, depth)
  IN IF query.parent.isNull
       THEN [query |-> resolved, joins |-> <<>>]
       ELSE LET inner == resolveInternal(h, query.parent.v.query,
                                         Some(query.parent.v.currentCol), depth + 1)
                join == [currentCol |-> query.parent.v.currentCol,
                         joinCol |-> query.parent.v.joinCol,
                         kind |-> query.parent.v.kind]
            IN [query |-> inner.query,
                joins |-> Append(inner.joins, [query |-> resolved, join |-> join])]

getResolved(h, self) ==
  IF ~h[self].resolved.isNull
    THEN h[self].resolved.v
    ELSE resolveInternal(h, self, NoneStr, 0)

(***************************************************************************)
(* getPreparedStatement: the chain is lowered to one SELECT statement, the *)
(* innermost (first created) query first; each later query wraps the       *)
(* statement so far in a LEFT JOIN.  The values of the where objects are   *)
(* bound through valuesParamsMap, a map from value to parameter name.      *)
(***************************************************************************)
dotCol(table, col) == table \o "." \o col

dedupe(s) ==
  LET F[i \in 0..Len(s)] ==
        IF i = 0 THEN <<>>
        ELSE LET prev == F[i - 1]
             IN IF s[i] \in SeqSet(prev) THEN prev ELSE Append(prev, s[i])
  IN F[Len(s)]

\* a generator whose counter is never advanced
createIdStuck(n) == "id" \o ToString(0)

\* the test-mode generator: the token of the call made when nextRandomId is n
createId(n) == "id" \o ToString(n)

\* the tokens of n calls made from nextRandomId = idc on
takeIds(idc, n) == [k \in 1..n |-> createId(idc + k - 1)]

\* the name bound to a value in valuesParamsMap, "" when it has none
paramNameOf(map, value) ==
  IF \E i \in DOMAIN map : map[i].value = value
    THEN map[CHOOSE i \in DOMAIN map : map[i].value = value].name
    ELSE ""

\* a map keyed by value holds one name per value: set() of a known key
\* replaces its name and keeps its place
mapSet(map, value, name) ==
  IF \E i \in DOMAIN map : map[i].value = value
    THEN [i \in DOMAIN map |->
            IF map[i].value = value THEN [value |-> value, name |-> name] ELSE map[i]]
    ELSE Append(map, [value |-> value, name |-> name])

\* one bind parameter for a value: the name the value already has, else a
\* fresh one
getValueParam(e, value) ==
  IF paramNameOf(e.map, value) # ""
    THEN [map |-> e.map, idc |-> e.idc, name |-> paramNameOf(e.map, value)]
    ELSE LET name == "_" \o createId(e.idc)
         IN [map |-> mapSet(e.map, value, name), idc |-> e.idc + 1, name |-> name]

\* e = [map, idc]; the result adds the conditions, one per entry of where
createWhere(e, whereObj, tableAlias) ==
  LET entries == IF whereObj.isNull THEN <<>> ELSE whereObj.v
      F[i \in 0..Len(entries)] ==
        IF i = 0 THEN [map |-> e.map, idc |-> e.idc, conds |-> <<>>]
        ELSE LET prev == F[i - 1]
                 p == getValueParam(prev, entries[i][2])
             IN [map |-> p.map, idc |-> p.idc,
                 conds |-> Append(prev.conds,
                                  <<dotCol(tableAlias, entries[i][1]), ":" \o p.name>>)]
  IN F[Len(entries)]

paramsFromMap(map) == [i \in DOMAIN map |-> <<map[i].name, map[i].value>>]

\* a limit node that keeps an offset that comes without a limit
createLimitOffsetAlone(lim, offset) ==
  (IF lim.isNull THEN <<>> ELSE <<"LIMIT", ToString(lim.v)>>)
    \o (IF ~offset.isNull THEN <<"OFFSET", ToString(offset.v)>> ELSE <<>>)

createLimit(lim, offset) ==
  IF lim.isNull THEN <<>>
  ELSE <<"LIMIT", ToString(lim.v)>>
         \o (IF ~offset.isNull THEN <<"OFFSET", ToString(offset.v)>> ELSE <<>>)

createOrderBy(ordering, tableAlias) ==
  IF ordering.isNull \/ ordering.v = <<>> THEN <<>>
  ELSE [i \in DOMAIN ordering.v |->
          <<dotCol(tableAlias, ordering.v[i][1]), ordering.v[i][2]>>]

NoJoin ==
  [isNull |-> TRUE,
   v |-> [join |-> [currentCol |-> "", joinCol |-> "", kind |-> ""],
          query |-> NoResolvedQuery, select |-> <<>>]]

\* the operator of every join the builder emits
JoinOperator == "Left"

\* the From node: a table, or the statement so far LEFT JOINed to a table
createFrom(resolved, join) ==
  IF ~join.isNull
    THEN [select |-> join.v.select,
          selectAlias |-> join.v.query.tableAlias,
          operator |-> JoinOperator,
          table |-> resolved.table,
          alias |-> resolved.tableAlias,
          onLeft |-> dotCol(join.v.query.tableAlias, join.v.join.currentCol),
          onRight |-> dotCol(resolved.tableAlias, join.v.join.joinCol)]
    ELSE [select |-> <<>>, selectAlias |-> "", operator |-> "",
          table |-> resolved.table, alias |-> resolved.tableAlias,
          onLeft |-> "", onRight |-> ""]

\* the SelectStmt node of one query of the chain, printed as its tokens
printColumns(cols, tableAlias) ==
  LET F[i \in 0..Len(cols)] ==
        IF i = 0 THEN <<>>
        ELSE F[i - 1] \o (IF i > 1 THEN <<",">> ELSE <<>>)
               \o <<dotCol(tableAlias, cols[i]), "AS", dotCol(tableAlias, cols[i])>>
  IN F[Len(cols)]

printConds(conds) ==
  LET F[i \in 0..Len(conds)] ==
        IF i = 0 THEN <<>>
        ELSE F[i - 1] \o (IF i > 1 THEN <<"AND">> ELSE <<"WHERE">>)
               \o <<conds[i][1], "==", conds[i][2]>>
  IN F[Len(conds)]

printOrderBy(terms) ==
  LET F[i \in 0..Len(terms)] ==
        IF i = 0 THEN <<>>
        ELSE F[i - 1] \o (IF i > 1 THEN <<",">> ELSE <<"ORDER", "BY">>)
               \o <<terms[i][1], terms[i][2]>>
  IN F[Len(terms)]

printFrom(from) ==
  IF from.select # <<>>
    THEN <<"FROM", "(">> \o from.select
           \o <<")", "AS", from.selectAlias,
                IF from.operator = "Left" THEN "LEFT" ELSE "INNER", "JOIN",
                from.table, "AS",
                from.alias, "ON", from.onLeft, "==", from.onRight>>
    ELSE <<"FROM", from.table, "AS", from.alias>>

resolvedQueryToSelectOwnMap(e, resolved, join) ==
  LET cols == dedupe((IF resolved.columns.isNull THEN <<>> ELSE resolved.columns.v)
                       \o resolved.joinColumns \o resolved.primaryColumns)
      w == createWhere([map |-> <<>>, idc |-> e.idc], resolved.where,
                       resolved.tableAlias)
      star == IF ~join.isNull
                THEN (IF cols # <<>> THEN <<",">> ELSE <<>>)
                       \o <<dotCol(join.v.query.tableAlias, "*")>>
                ELSE <<>>
  IN [map |-> e.map \o w.map, idc |-> w.idc,
      select |-> <<"SELECT">> \o printColumns(cols, resolved.tableAlias) \o star
                   \o printFrom(createFrom(resolved, join))
                   \o printConds(w.conds)
                   \o printOrderBy(createOrderBy(resolved.orderBy, resolved.tableAlias))
                   \o createLimit(resolved.limit, resolved.offset)]

\* the clauses written in the order of the fields of the node: limit, orderBy
resolvedQueryToSelectLimitFirst(e, resolved, join) ==
  LET cols == dedupe((IF resolved.columns.isNull THEN <<>> ELSE resolved.columns.v)
                       \o resolved.joinColumns \o resolved.primaryColumns)
      w == createWhere(e, resolved.where, resolved.tableAlias)
      star == IF ~join.isNull
                THEN (IF cols # <<>> THEN <<",">> ELSE <<>>)
                       \o <<dotCol(join.v.query.tableAlias, "*")>>
                ELSE <<>>
  IN [map |-> w.map, idc |-> w.idc,
      select |-> <<"SELECT">> \o printColumns(cols, resolved.tableAlias) \o star
                   \o printFrom(createFrom(resolved, join))
                   \o printConds(w.conds)
                   \o createLimit(resolved.limit, resolved.offset)
                   \o printOrderBy(createOrderBy(resolved.orderBy, resolved.tableAlias))]

resolvedQueryToSelect(e, resolved, join) ==
  LET cols == dedupe((IF resolved.columns.isNull THEN <<>> ELSE resolved.columns.v)
                       \o resolved.joinColumns \o resolved.primaryColumns)
      w == createWhere(e, resolved.where, resolved.tableAlias)
      star == IF ~join.isNull
                THEN (IF cols # <<>> THEN <<",">> ELSE <<>>)
                       \o <<dotCol(join.v.query.tableAlias, "*")>>
                ELSE <<>>
  IN [map |-> w.map, idc |-> w.idc,
      select |-> <<"SELECT">> \o printColumns(cols, resolved.tableAlias) \o star
                   \o printFrom(createFrom(resolved, join))
                   \o printConds(w.conds)
                   \o printOrderBy(createOrderBy(resolved.orderBy, resolved.tableAlias))
                   \o createLimit(resolved.limit, resolved.offset)]

getPreparedStatementPerQueryMap(h, self, idc) ==
  LET r == getResolved(h, self)
      base == resolvedQueryToSelect([map |-> <<>>, idc |-> idc], r.query, NoJoin)
      F[i \in 0..Len(r.joins)] ==
        IF i = 0 THEN base
        ELSE LET prev == F[i - 1]
             IN resolvedQueryToSelect(
                  [map |-> <<>>, idc |-> prev.idc],
                  r.joins[i].query,
                  Some([join |-> r.joins[i].join,
                        query |-> IF i = 1 THEN r.query ELSE r.joins[i - 1].query,
                        select |-> prev.select]))
      last == F[Len(r.joins)]
  IN [statement |-> [sql |-> last.select,
                     params |-> paramsFromMap(last.map),
                     bound |-> paramsFromMap(last.map) # <<>>],
      resolved |-> r,
      idc |-> last.idc]

\* the statement a query prepares when it has none yet, with the resolved
\* chain and the id generator afterwards
getPreparedStatement(h, self, idc) ==
  LET r == getResolved(h, self)
      base == resolvedQueryToSelect([map |-> <<>>, idc |-> idc], r.query, NoJoin)
      F[i \in 0..Len(r.joins)] ==
        IF i = 0 THEN base
        ELSE LET prev == F[i - 1]
             IN resolvedQueryToSelect(
                  [map |-> prev.map, idc |-> prev.idc],
                  r.joins[i].query,
                  Some([join |-> r.joins[i].join,
                        query |-> IF i = 1 THEN r.query ELSE r.joins[i - 1].query,
                        select |-> prev.select]))
      last == F[Len(r.joins)]
  IN [statement |-> [sql |-> last.select,
                     params |-> paramsFromMap(last.map),
                     bound |-> paramsFromMap(last.map) # <<>>],
      resolved |-> r,
      idc |-> last.idc]

(***************************************************************************)
(* buildResult: the flat rows of the driver are grouped by the primary key *)
(* of each query of the chain, outermost first, and every group is shaped  *)
(* into one result.  A shaped value is [k, cols, jn, items]: k is "undef", *)
(* "null", "obj" (cols, and under key jn the joined content items[1]) or   *)
(* "list" (items).                                                         *)
(***************************************************************************)
Undefined == [k |-> "undef", cols |-> <<>>, jn |-> "", items |-> <<>>]

Null == [k |-> "null", cols |-> <<>>, jn |-> "", items |-> <<>>]

List(items) == [k |-> "list", cols |-> <<>>, jn |-> "", items |-> items]

Thrown(msg) == [ok |-> FALSE, err |-> msg, v |-> Undefined]

Value(v) == [ok |-> TRUE, err |-> "", v |-> v]

\* results[0] ?? null
FirstOrNull(results) ==
  IF results = <<>> \/ results[1].k \in {"undef", "null"} THEN Null ELSE results[1]

transformJoinNullWhenEmpty(results, kind) ==
  IF results = <<>> THEN Value(Null)
  ELSE IF kind = "many" THEN Value(List(results))
  ELSE IF kind \in {"first", "maybeFirst"} THEN Value(FirstOrNull(results))
  ELSE IF Len(results) > 1 THEN Thrown("Multiple results for a single join")
  ELSE Value(FirstOrNull(results))

\* a shaping that takes the first result of a single join without counting
transformJoinUnchecked(results, kind) ==
  IF kind = "many" THEN Value(List(results))
  ELSE IF kind \in {"maybeFirst", "maybeOne"} THEN Value(FirstOrNull(results))
  ELSE IF Len(results) = 0 THEN Thrown("No result for a single join")
  ELSE Value(results[1])

transformJoin(results, kind) ==
  IF kind = "many" THEN Value(List(results))
  ELSE IF kind = "maybeFirst" THEN Value(FirstOrNull(results))
  ELSE IF kind = "first"
    THEN (IF Len(results) = 0 THEN Thrown("No result for a single join")
          ELSE Value(results[1]))
  ELSE IF Len(results) > 1 THEN Thrown("Multiple results for a single join")
  ELSE IF kind = "maybeOne" THEN Value(FirstOrNull(results))
  ELSE IF Len(results) = 0 THEN Thrown("No result for a single join")
  ELSE Value(results[1])

\* the codec of a text column parses a cell to itself
parseColumn(table, col, rawValue) == rawValue

rowKeys(query, row) ==
  [i \in DOMAIN query.primaryColumns |->
     row[dotCol(query.tableAlias, query.primaryColumns[i])]]

keysAllNull(keys) == \A i \in DOMAIN keys : keys[i] = NULL

keysIncludeNull(keys) == \E i \in DOMAIN keys : keys[i] = NULL

\* a grouping that compares a row with the group of the row before it only
groupsOfAdjacent(query, rows) ==
  LET F[i \in 0..Len(rows)] ==
        IF i = 0 THEN <<>>
        ELSE LET keys == rowKeys(query, rows[i])
                 g == F[i - 1]
             IN IF keysIncludeNull(keys) THEN g
                ELSE IF g # <<>> /\ g[Len(g)].keys = keys
                  THEN [g EXCEPT ![Len(g)].rows = Append(@, rows[i])]
                  ELSE Append(g, [keys |-> keys, rows |-> <<rows[i]>>])
  IN F[Len(rows)]

\* the groups of groupRows: rows with a null primary cell are skipped, the
\* others are collected under their key in order of first occurrence
groupsOf(query, rows) ==
  LET F[i \in 0..Len(rows)] ==
        IF i = 0 THEN <<>>
        ELSE LET keys == rowKeys(query, rows[i])
                 g == F[i - 1]
             IN IF keysIncludeNull(keys) THEN g
                ELSE IF \E j \in DOMAIN g : g[j].keys = keys
                  THEN LET j == CHOOSE j \in DOMAIN g : g[j].keys = keys
                       IN [g EXCEPT ![j].rows = Append(@, rows[i])]
                  ELSE Append(g, [keys |-> keys, rows |-> <<rows[i]>>])
  IN F[Len(rows)]

RECURSIVE groupRows(_, _, _)
groupRows(query, joins, rows) ==
  LET groups == groupsOf(query, rows)
      columns == IF query.columns.isNull THEN <<>> ELSE query.columns.v
      Shape(group) ==
        LET result ==
              [k |-> "obj",
               cols |-> [i \in DOMAIN columns |->
                           <<columns[i],
                             parseColumn(query.table, columns[i],
                                         group.rows[1][dotCol(query.tableAlias,
                                                              columns[i])])>>],
               jn |-> "", items |-> <<>>]
        IN IF joins = <<>>
             THEN (IF query.columns.isNull THEN Value(Undefined) ELSE Value(result))
             ELSE LET joinResult == groupRows(joins[1].query, Tail(joins), group.rows)
                      joinContent == IF joinResult.ok
                                       THEN transformJoin(joinResult.v.items,
                                                          joins[1].join.kind)
                                       ELSE joinResult
                  IN IF ~joinContent.ok THEN joinContent
                     ELSE IF query.columns.isNull THEN joinContent
                     ELSE IF joinContent.v.k # "undef"
                       THEN Value([result EXCEPT !.jn = joins[1].query.table,
                                                 !.items = <<joinContent.v>>])
                       ELSE Value(result)
      F[i \in 0..Len(groups)] ==
        IF i = 0 THEN Value(List(<<>>))
        ELSE LET prev == F[i - 1]
                 r == Shape(groups[i])
             IN IF ~prev.ok THEN prev
                ELSE IF ~r.ok THEN r
                ELSE Value(List(Append(prev.v.items, r.v)))
  IN F[Len(groups)]

\* a shaping that makes one result of every row the driver returned
buildResultPerRow(resolved, rows) ==
  LET each == [i \in DOMAIN rows |->
                 groupRows(resolved.query, resolved.joins, <<rows[i]>>)]
      F[i \in 0..Len(rows)] ==
        IF i = 0 THEN <<>> ELSE F[i - 1] \o each[i].v.items
  IN IF \E i \in DOMAIN each : ~each[i].ok
       THEN each[CHOOSE i \in DOMAIN each : ~each[i].ok]
       ELSE Value(List(F[Len(rows)]))

buildResult(resolved, rows) == groupRows(resolved.query, resolved.joins, rows)

(***************************************************************************)
(* The driver: what statement.all() returns for the statement of a         *)
(* resolved chain over the rows of the database.  A stored row maps column *)
(* to cell; a returned row maps "alias.column" to cell.  The innermost     *)
(* SELECT reads its table; every later SELECT LEFT JOINs the rows so far   *)
(* to its table, a row without match getting null cells.  WHERE compares   *)
(* cells to the bound values, LIMIT / OFFSET cut the rows.                 *)
(***************************************************************************)
resultColumnsOf(resolved) ==
  dedupe((IF resolved.columns.isNull THEN <<>> ELSE resolved.columns.v)
           \o resolved.joinColumns \o resolved.primaryColumns)

\* the cells one SELECT adds to a returned row; stored = <<>> for no match
projected(resolved, stored) ==
  LET cols == SeqSet(resultColumnsOf(resolved))
  IN [k \in {dotCol(resolved.tableAlias, c) : c \in cols} |->
        LET c == CHOOSE c \in cols : dotCol(resolved.tableAlias, c) = k
        IN IF stored = <<>> THEN NULL ELSE stored[1][c]]

whereHolds(resolved, stored) ==
  \/ resolved.where.isNull
  \/ /\ stored # <<>>
     /\ \A i \in DOMAIN resolved.where.v :
          stored[1][resolved.where.v[i][1]] = resolved.where.v[i][2]

limited(resolved, rows) ==
  IF resolved.limit.isNull THEN rows
  ELSE LET from == IF resolved.offset.isNull THEN 0 ELSE resolved.offset.v
           upto == IF from + resolved.limit.v < Len(rows)
                     THEN from + resolved.limit.v ELSE Len(rows)
       IN SubSeq(rows, from + 1, upto)

Flatten(ss) ==
  LET F[i \in 0..Len(ss)] == IF i = 0 THEN <<>> ELSE F[i - 1] \o ss[i]
  IN F[Len(ss)]

\* rows of the innermost SELECT
scanRows(resolved, stored) ==
  LET Keep(r) == whereHolds(resolved, <<r>>)
      kept == SelectSeq(stored, Keep)
  IN limited(resolved, [i \in DOMAIN kept |-> projected(resolved, <<kept[i]>>)])

\* rows of a SELECT that joins the rows so far to its table
leftJoinRows(resolved, join, prevAlias, prevRows, stored) ==
  LET JoinOne(p) ==
        LET Match(r) == /\ r[join.joinCol] # NULL
                        /\ r[join.joinCol] = p[dotCol(prevAlias, join.currentCol)]
            matches == SelectSeq(stored, Match)
            padded == IF matches = <<>> THEN <<<<>>>>
                      ELSE [i \in DOMAIN matches |-> <<matches[i]>>]
            Keep(m) == whereHolds(resolved, m)
            kept == SelectSeq(padded, Keep)
        IN [i \in DOMAIN kept |-> p @@ projected(resolved, kept[i])]
  IN limited(resolved, Flatten([i \in DOMAIN prevRows |-> JoinOne(prevRows[i])]))

innerJoinRows(resolved, join, prevAlias, prevRows, stored) ==
  LET JoinOne(p) ==
        LET Match(r) == /\ r[join.joinCol] # NULL
                        /\ r[join.joinCol] = p[dotCol(prevAlias, join.currentCol)]
            matches == SelectSeq(stored, Match)
            Keep(m) == whereHolds(resolved, <<m>>)
            kept == SelectSeq(matches, Keep)
        IN [i \in DOMAIN kept |-> p @@ projected(resolved, <<kept[i]>>)]
  IN limited(resolved, Flatten([i \in DOMAIN prevRows |-> JoinOne(prevRows[i])]))

joinRows(operator, resolved, join, prevAlias, prevRows, stored) ==
  IF operator = "Left"
    THEN leftJoinRows(resolved, join, prevAlias, prevRows, stored)
    ELSE innerJoinRows(resolved, join, prevAlias, prevRows, stored)

\* the rows of the statement when its joins are of the given operator
statementRows(operator, resolved, dbv) ==
  LET F[i \in 0..Len(resolved.joins)] ==
        IF i = 0 THEN scanRows(resolved.query, dbv[resolved.query.table])
        ELSE joinRows(operator, resolved.joins[i].query, resolved.joins[i].join,
                      (IF i = 1 THEN resolved.query
                       ELSE resolved.joins[i - 1].query).tableAlias,
                      F[i - 1], dbv[resolved.joins[i].query.table])
  IN F[Len(resolved.joins)]

statementAll(resolved, dbv) == statementRows(JoinOperator, resolved, dbv)

(***************************************************************************)
(* The terminal methods: prepare, run, shape, then judge the number of     *)
(* results.                                                                *)
(***************************************************************************)
all(results) == Value(List(results))

oneLoose(results) == IF Len(results) = 0 THEN Thrown("Expected 1 result") ELSE Value(results[1])

one(results) ==
  IF Len(results) # 1 THEN Thrown("Expected 1 result") ELSE Value(results[1])

maybeOne(results) ==
  IF Len(results) > 1 THEN Thrown("Expected maybe 1 result")
  ELSE Value(FirstOrNull(results))

first(results) ==
  IF Len(results) = 0 THEN Thrown("Expected at least 1 result, got 0")
  ELSE Value(results[1])

maybeFirst(results) == Value(FirstOrNull(results))

(***************************************************************************)
(* The arguments the builder methods are called with.                      *)
(***************************************************************************)
SelectionInputs(table) ==
  {<<Columns(table)[1]>>, <<Columns(table)[2]>>, Columns(table)}

WhereInputs(table) ==
  LET c1 == Columns(table)[1]
      c2 == Columns(table)[2]
  IN {<<<<c1, "a">>>>, <<<<c2, "b">>>>,
      <<<<c1, "a">>, <<c2, "a">>>>, <<<<c1, "b">>, <<c2, "a">>>>}

LimitInputs == {<<Some(1), NoneInt>>, <<Some(1), Some(2)>>, <<NoneInt, Some(2)>>}

NoDir == [isNull |-> TRUE, v |-> [dir |-> "", term |-> <<"", "">>]]

OrderByInputs(table) ==
  LET c1 == Columns(table)[1]
      c2 == Columns(table)[2]
  IN {<<[isCol |-> TRUE, col |-> c1, term |-> <<"", "">>], NoDir, <<>>>>,
      <<[isCol |-> TRUE, col |-> c2, term |-> <<"", "">>],
        Some([dir |-> "Desc", term |-> <<"", "">>]), <<>>>>,
      <<[isCol |-> FALSE, col |-> "", term |-> <<c1, "Desc">>],
        Some([dir |-> "", term |-> <<c2, "Asc">>]), <<>>>>}

\* currentCol of the receiver's table, the joined table, its joinCol
PipeInputs(table) ==
  CASE table = "users" -> {<<"id", "joinUsersTasks", "user_id">>}
    [] table = "joinUsersTasks" -> {<<"task_id", "tasks", "id">>}
    [] table = "tasks" -> {<<"id", "joinUsersTasks", "task_id">>}

NoOut ==
  [op |-> "", recv |-> 0, arg |-> <<>>, query |-> 0,
   statement |-> NoStatement.v, again |-> FALSE, status |-> "", err |-> "",
   rows |-> <<>>, built |-> Value(Undefined), value |-> Undefined,
   on |-> 0, at |-> 0]

Objs == DOMAIN heap

TableOf(q) == heap[q].priv.table

(***************************************************************************)
(* The builder: every method appends one object to the heap and returns    *)
(* it.                                                                     *)
(***************************************************************************)
Returned(op, recv, arg, h) ==
  [NoOut EXCEPT !.op = op, !.recv = recv, !.arg = arg, !.query = Len(h),
                !.status = "ok"]

Build(op, recv, arg, h) ==
  /\ Len(heap) < MaxObjs
  /\ heap' = h
  /\ out' = Returned(op, recv, arg, h)
  /\ UNCHANGED <<idCounter, db, nheap, nout, issued, conn, cache>>

Create == \E t \in Tables : Build("create", 0, <<>>, create(heap, t))

Select ==
  \E q \in Objs : \E s \in SelectionInputs(TableOf(q)) :
    Build("select", q, s, select(heap, q, s))

Where ==
  \E q \in Objs : \E w \in WhereInputs(TableOf(q)) :
    Build("where", q, w, where(heap, q, w))

Limit ==
  \E q \in Objs : \E l \in LimitInputs :
    Build("limit", q, <<>>, limit(heap, q, l[1], l[2]))

OrderBy ==
  \E q \in Objs : \E o \in OrderByInputs(TableOf(q)) :
    Build("orderBy", q, <<>>, orderBy(heap, q, o[1], o[2], o[3]))

Pipe ==
  \E q \in Objs : \E j \in PipeInputs(TableOf(q)) :
    Build("pipe", q, <<>>, pipe(heap, q, j[1], j[2], j[3]))

PipeOne ==
  \E q \in Objs : \E j \in PipeInputs(TableOf(q)) :
    Build("pipeOne", q, <<>>, pipeOne(heap, q, j[1], j[2], j[3]))

PipeMaybeOne ==
  \E q \in Objs : \E j \in PipeInputs(TableOf(q)) :
    Build("pipeMaybeOne", q, <<>>, pipeMaybeOne(heap, q, j[1], j[2], j[3]))

PipeFirst ==
  \E q \in Objs : \E j \in PipeInputs(TableOf(q)) :
    Build("pipeFirst", q, <<>>, pipeFirst(heap, q, j[1], j[2], j[3]))

PipeMaybeFirst ==
  \E q \in Objs : \E j \in PipeInputs(TableOf(q)) :
    Build("pipeMaybeFirst", q, <<>>, pipeMaybeFirst(heap, q, j[1], j[2], j[3]))

(***************************************************************************)
(* Prepare: one call of getPreparedStatement.  The first call resolves the *)
(* chain, prints and prepares the statement and binds its parameters; a    *)
(* later call returns the statement kept in the object.                    *)
(***************************************************************************)
\* the database the host hands out now
getDb == conn

\* a getPreparedStatement that does not look at the statement it kept
PreparedAnew(h, q, idc) ==
  LET p == getPreparedStatement([h EXCEPT ![q].resolved = NoResolved], q, idc)
  IN [heap |-> [h EXCEPT ![q].resolved = Some(p.resolved),
                         ![q].preparedStatement = Some(p.statement),
                         ![q].startId = idc,
                         ![q].preparedOn = getDb],
      idc |-> p.idc,
      statement |-> p.statement]

Prepared(h, q, idc) ==
  IF ~h[q].preparedStatement.isNull
    THEN [heap |-> h, idc |-> idc, statement |-> h[q].preparedStatement.v]
    ELSE LET p == getPreparedStatement(h, q, idc)
         IN [heap |-> [h EXCEPT ![q].resolved = Some(p.resolved),
                                ![q].preparedStatement = Some(p.statement),
                                ![q].startId = idc,
                                ![q].preparedOn = getDb],
             idc |-> p.idc,
             statement |-> p.statement]

PrepareOf(q) ==
  \E p \in {Prepared(heap, q, idCounter)} :
       /\ p.idc <= MaxId
       /\ heap' = p.heap
       /\ idCounter' = p.idc
       /\ issued' = issued \o takeIds(idCounter, p.idc - idCounter)
       /\ out' = [NoOut EXCEPT !.op = "prepare", !.query = q, !.status = "ok",
                                !.statement = p.statement,
                                !.again = ~heap[q].preparedStatement.isNull,
                                !.on = p.heap[q].preparedOn, !.at = getDb]
       /\ UNCHANGED <<db, nheap, nout, conn, cache>>

Prepare == \E q \in Objs : PrepareOf(q)

\* the tests reset the id generator before each scenario
ResetIds ==
  /\ idCounter # 0
  /\ idCounter' = 0
  /\ issued' = <<>>
  /\ UNCHANGED <<heap, out, db, nheap, nout, conn, cache>>

(***************************************************************************)
(* A terminal call on query q: the statement is prepared (or taken from    *)
(* the object), run, its rows are shaped and the results judged.           *)
(***************************************************************************)
judge(op, results) ==
  CASE op = "all" -> all(results)
    [] op = "one" -> one(results)
    [] op = "maybeOne" -> maybeOne(results)
    [] op = "first" -> first(results)
    [] op = "maybeFirst" -> maybeFirst(results)

Terminal(op, q) ==
  \E p \in {Prepared(heap, q, idCounter)} :
  \E rows \in {statementAll(p.heap[q].resolved.v, db)} :
  \E built \in {buildResult(p.heap[q].resolved.v, rows)} :
  \E r \in {IF built.ok THEN judge(op, built.v.items) ELSE built} :
     /\ p.idc <= MaxId
     /\ heap' = p.heap
     /\ idCounter' = p.idc
     /\ issued' = issued \o takeIds(idCounter, p.idc - idCounter)
     /\ out' = [NoOut EXCEPT !.op = op, !.query = q,
                              !.statement = p.statement,
                              !.status = IF r.ok THEN "ok" ELSE "error",
                              !.err = r.err,
                              !.rows = rows,
                              !.built = built,
                              !.value = r.v,
                              !.on = p.heap[q].preparedOn, !.at = getDb]
     /\ UNCHANGED <<db, nheap, nout, conn, cache>>

\* the query the terminal calls are made on: the last of the chain
Tip == Len(heap)

All == Terminal("all", Tip)

One == Terminal("one", Tip)

MaybeOne == Terminal("maybeOne", Tip)

First == Terminal("first", Tip)

MaybeFirst == Terminal("maybeFirst", Tip)

NextRun == All \/ One \/ MaybeOne \/ First \/ MaybeFirst

(***************************************************************************)
(* The chains and the stored rows the terminal calls are checked on.       *)
(***************************************************************************)
pipeByKind(h, self, kind, currentCol, table, joinCol) ==
  CASE kind = "many" -> pipe(h, self, currentCol, table, joinCol)
    [] kind = "one" -> pipeOne(h, self, currentCol, table, joinCol)
    [] kind = "maybeOne" -> pipeMaybeOne(h, self, currentCol, table, joinCol)
    [] kind = "first" -> pipeFirst(h, self, currentCol, table, joinCol)
    [] kind = "maybeFirst" -> pipeMaybeFirst(h, self, currentCol, table, joinCol)

\* h, or h with a selection of the second column, or with a condition on the
\* first column, on its last query
WithClause(h) ==
  {h,
   select(h, Len(h), <<Columns(h[Len(h)].priv.table)[2]>>),
   where(h, Len(h), <<<<Columns(h[Len(h)].priv.table)[1], "a">>>>)}

RECURSIVE ShapeChains(_)
ShapeChains(n) ==
  IF n = 0 THEN WithClause(create(<<>>, "users"))
  ELSE UNION {UNION {WithClause(pipeByKind(h, Len(h), kind, j[1], j[2], j[3])) :
                       j \in PipeInputs(h[Len(h)].priv.table)} :
                kind \in PipeKind, h \in ShapeChains(n - 1)}

Row2(c1, v1, c2, v2) == (c1 :> v1) @@ (c2 :> v2)

UsersRows ==
  {<<>>, <<Row2("id", "a", "name", "a")>>,
   <<Row2("id", "a", "name", "a"), Row2("id", "b", "name", "b")>>}

\* the rows of joinUsersTasks; the driver returns cells as stored, and in one
\* family a row has a user_id and no task_id
JoinRows ==
  {<<Row2("user_id", "a", "task_id", "a")>>,
   <<Row2("user_id", "a", "task_id", "a"), Row2("user_id", "a", "task_id", "b")>>,
   <<Row2("user_id", "a", "task_id", NULL)>>,
   <<Row2("user_id", "b", "task_id", "a"), Row2("user_id", "a", "task_id", "a")>>}

TasksRows ==
  {<<Row2("id", "a", "title", "a")>>,
   <<Row2("id", "b", "title", "b"), Row2("id", "a", "title", "a")>>}

NoDb == [t \in Tables |-> <<>>]

\* the statements a DatabaseTable caches by name, none prepared yet
StatementNames ==
  {"insert", "deleteByKey", "updateByKey", "selectAll", "findByKey", "countAll"}

\* the indexes of the table, each with a statement of its own
IndexNames == {"byName"}

NoCache == [name \in StatementNames \cup IndexNames |-> 0]

\* no operation emitted by the expression-based builder
NoOperation == [root |-> 0, sql |-> <<>>]

Init ==
  /\ heap = <<>>
  /\ idCounter = 0
  /\ out = NoOut
  /\ db = NoDb
  /\ nheap = <<>>
  /\ nout = NoOperation
  /\ issued = takeIds(0, idCounter)
  /\ conn = 1
  /\ cache = NoCache

Next ==
  \/ Create
  \/ Select
  \/ Where
  \/ Limit
  \/ OrderBy
  \/ Pipe
  \/ PipeOne
  \/ PipeMaybeOne
  \/ PipeFirst
  \/ PipeMaybeFirst
  \/ Prepare
  \/ ResetIds

Spec == Init /\ [][Next]_vars

InitShape ==
  /\ heap \in UNION {ShapeChains(n) : n \in 0..MaxPipes}
  /\ idCounter = 0
  /\ out = NoOut
  /\ \E u \in UsersRows, j \in JoinRows, t \in TasksRows :
       db = [users |-> u, joinUsersTasks |-> j, tasks |-> t]
  /\ nheap = <<>>
  /\ nout = NoOperation
  /\ issued = takeIds(0, idCounter)
  /\ conn = 1
  /\ cache = NoCache

SpecShape == InitShape /\ [][NextRun]_vars

(***************************************************************************)
(* Properties of the terminal methods and of the shaping.                  *)
(***************************************************************************)
TerminalOps == {"all", "one", "maybeOne", "first", "maybeFirst"}

\* the results buildResult returned to the terminal method
Results == out.built.v.items

Failed == out.status = "error"

\* C1 as stated: on every result list, one fails on 0 and on 2 or more results
\* and else returns the single result; maybeOne fails on 2 or more, returns
\* null on 0 and the single result on 1; first fails on 0 and else returns the
\* first result; maybeFirst never fails, returns null on 0 and else the first
\* result; all never fails and returns the whole list.
C1_TerminalCardinalityAsStated ==
  (out.op \in TerminalOps /\ out.built.ok)
    => /\ out.op = "one"
            => /\ Failed <=> Len(Results) # 1
               /\ Len(Results) = 1 => out.value = Results[1]
       /\ out.op = "maybeOne"
            => /\ Failed <=> Len(Results) > 1
               /\ Len(Results) = 0 => out.value = Null
               /\ Len(Results) = 1 => out.value = Results[1]
       /\ out.op = "first"
            => /\ Failed <=> Len(Results) = 0
               /\ Len(Results) > 0 => out.value = Results[1]
       /\ out.op = "maybeFirst"
            => /\ ~Failed
               /\ Len(Results) = 0 => out.value = Null
               /\ Len(Results) > 0 => out.value = Results[1]
       /\ out.op = "all" => ~Failed /\ out.value = List(Results)

\* the first result as maybeOne and maybeFirst return it: an undefined result
\* (a query that selects nothing) comes back as null
OrNull(result) == IF result = Undefined THEN Null ELSE result

\* C1 as amended: the same failure conditions and return values, except that
\* maybeOne and maybeFirst return null in place of a first result that is
\* undefined.
C1_TerminalCardinality ==
  (out.op \in TerminalOps /\ out.built.ok)
    => /\ out.op = "one"
            => /\ Failed <=> Len(Results) # 1
               /\ Len(Results) = 1 => out.value = Results[1]
       /\ out.op = "maybeOne"
            => /\ Failed <=> Len(Results) > 1
               /\ Len(Results) = 0 => out.value = Null
               /\ Len(Results) = 1 => out.value = OrNull(Results[1])
       /\ out.op = "first"
            => /\ Failed <=> Len(Results) = 0
               /\ Len(Results) > 0 => out.value = Results[1]
       /\ out.op = "maybeFirst"
            => /\ ~Failed
               /\ Len(Results) = 0 => out.value = Null
               /\ Len(Results) > 0 => out.value = OrNull(Results[1])
       /\ out.op = "all" => ~Failed /\ out.value = List(Results)

\* C1 witness: one was called on a query with two results and failed.
C1_Witness ==
  /\ out.op = "one"
  /\ out.built.ok
  /\ Len(Results) = 2
  /\ Failed

(***************************************************************************)
(* Properties of the builder and of the prepared statement.                *)
(***************************************************************************)
BuilderOps ==
  {"select", "where", "limit", "orderBy", "pipe", "pipeOne", "pipeMaybeOne",
   "pipeFirst", "pipeMaybeFirst"}

IsPrepared(q) == ~heap[q].preparedStatement.isNull

\* the records of a query and of its parents, without the identities
RECURSIVE ChainOf(_, _)
ChainOf(h, q) ==
  IF h[q].priv.parent.isNull
    THEN <<h[q].priv>>
    ELSE Append(ChainOf(h, h[q].priv.parent.v.query),
                [h[q].priv EXCEPT !.parent.v.query = 0])

\* C2 as stated: where(f) on a query that carries the condition w keeps every
\* condition of w in the filter of the query it returns (w AND f).
C2_WhereComposesWithAnd ==
  (out.op = "where" /\ ~heap[out.recv].priv.where.isNull)
    => \A i \in DOMAIN heap[out.recv].priv.where.v :
          heap[out.recv].priv.where.v[i] \in SeqSet(heap[out.query].priv.where.v)

\* C2 as amended: where(f) replaces the where condition: the query it returns
\* carries exactly f, whatever condition the receiver carried, and every other
\* clause of the receiver.
C2_WhereReplaces ==
  out.op = "where"
    => /\ heap[out.query].priv.where = Some(out.arg)
       /\ heap[out.query].priv = [heap[out.recv].priv EXCEPT !.where = Some(out.arg)]

\* C2 witness: where was called on a query that carried another condition.
C2_Witness ==
  /\ out.op = "where"
  /\ ~heap[out.recv].priv.where.isNull
  /\ heap[out.recv].priv.where.v # out.arg
  /\ heap[out.recv].priv.where.v[1] \notin SeqSet(out.arg)

\* C3: a builder call leaves the clauses of every existing query (the receiver
\* and the queries that share it as parent) as they were, and returns a query
\* that did not exist before the call.
C3_BuildersDoNotMutate ==
  [][out'.op \in BuilderOps /\ heap' # heap
       => /\ \A q \in DOMAIN heap :
               q \in DOMAIN heap' /\ heap'[q].priv = heap[q].priv
          /\ out'.query = Len(heap) + 1
          /\ DOMAIN heap' = 1..(Len(heap) + 1)]_vars

\* C3 witness: where was called on a query that another query has as parent.
C3_Witness ==
  /\ out.op = "where"
  /\ \E q \in Objs :
       /\ ~heap[q].priv.parent.isNull
       /\ heap[q].priv.parent.v.query = out.recv
  /\ heap[out.recv].priv.where.isNull

\* C4: two queries with the same clauses and parents, prepared from the same
\* state of the id generator, get the same SQL, parameters and resolved plan;
\* a repeated call returns the statement of the first call; preparing changes
\* the clauses of no query.
C4_EmissionIdempotent ==
  /\ [](\A x, y \in Objs :
          (/\ IsPrepared(x) /\ IsPrepared(y)
           /\ ChainOf(heap, x) = ChainOf(heap, y)
           /\ heap[x].startId = heap[y].startId)
            => /\ heap[x].preparedStatement = heap[y].preparedStatement
               /\ heap[x].resolved = heap[y].resolved)
  /\ [][out'.op = "prepare" /\ out' # out
          => /\ \A q \in DOMAIN heap : heap'[q].priv = heap[q].priv
             /\ IsPrepared(out'.query)
                  => /\ out'.statement = heap[out'.query].preparedStatement.v
                     /\ heap' = heap]_vars

\* C4 witness: a statement with parameters was returned a second time, and a
\* second query with the same clauses was prepared from the same id state.
C4_Witness ==
  /\ out.op = "prepare"
  /\ out.again
  /\ out.statement.params # <<>>
  /\ \E y \in Objs :
       /\ y # out.query
       /\ IsPrepared(y)
       /\ ChainOf(heap, y) = ChainOf(heap, out.query)
       /\ heap[y].startId = heap[out.query].startId



\* the statement the last terminal method ran, as resolved
Ran == heap[out.query].resolved.v

\* the stored rows of the root table that the root SELECT returns
LeftRows ==
  LET Keep(u) == whereHolds(Ran.query, <<u>>)
  IN SeqSet(SelectSeq(db[Ran.query.table], Keep))

\* the left row u has no row of the first joined table matching it
Unmatched(u) ==
  \A i \in DOMAIN db[Ran.joins[1].query.table] :
     db[Ran.joins[1].query.table][i][Ran.joins[1].join.joinCol]
       # u[Ran.joins[1].join.currentCol]

\* the selected columns of the left row u, as groupRows shapes them
ShapedColumns(u) ==
  [i \in DOMAIN Ran.query.columns.v |->
     <<Ran.query.columns.v[i], u[Ran.query.columns.v[i]]>>]

\* the shaped result holds the left row u with v at the key of the joined table
HoldsAtKey(results, u, v) ==
  \E i \in DOMAIN results :
     /\ results[i].k = "obj"
     /\ results[i].cols = ShapedColumns(u)
     /\ results[i].jn = Ran.joins[1].query.table
     /\ results[i].items = <<v>>

\* the shaped result of the same statement with inner joins has no row for u
AbsentWhenInner(u) ==
  LET inner == buildResult(Ran, statementRows("Inner", Ran, db))
  IN inner.ok =>
       \A i \in DOMAIN inner.v.items : inner.v.items[i].cols # ShapedColumns(u)

\* a terminal method ran a statement with a join whose root query selects
JoinRan ==
  /\ out.op \in TerminalOps
  /\ Ran.joins # <<>>
  /\ ~Ran.query.columns.isNull
  /\ Ran.query.limit.isNull

\* no joined query filters or cuts its rows
JoinsUnfiltered ==
  \A i \in DOMAIN Ran.joins :
     Ran.joins[i].query.where.isNull /\ Ran.joins[i].query.limit.isNull

RootGroups == groupsOf(Ran.query, out.rows)

\* the primary cells of the first joined table in a returned row
JoinedKeys(row) == rowKeys(Ran.joins[1].query, row)

EveryCellNull(keys) == \A i \in DOMAIN keys : keys[i] = NULL

SomeCellNull(keys) == \E i \in DOMAIN keys : keys[i] = NULL

\* the distinct keys of the joined rows of a group in which some cell is set
KeysWithACell(rows) ==
  {JoinedKeys(rows[i]) :
     i \in {j \in DOMAIN rows : ~EveryCellNull(JoinedKeys(rows[j]))}}

\* the distinct keys of the joined rows of a group in which every cell is set
KeysWithEveryCell(rows) ==
  {JoinedKeys(rows[i]) :
     i \in {j \in DOMAIN rows : ~SomeCellNull(JoinedKeys(rows[j]))}}

\* a terminal method shaped the rows of a many join of a selecting root query
ManyShaped ==
  /\ JoinRan
  /\ Ran.joins[1].join.kind = "many"
  /\ out.built.ok

WithWhere(h) ==
  {h} \cup {where(h, Len(h), w) : w \in WhereInputs(h[Len(h)].priv.table)}

RECURSIVE EmitChains(_)
EmitChains(n) ==
  IF n = 0 THEN WithWhere(create(<<>>, "users"))
  ELSE UNION {UNION {WithWhere(pipe(h, Len(h), j[1], j[2], j[3])) :
                       j \in PipeInputs(h[Len(h)].priv.table)} :
                h \in EmitChains(n - 1)}

\* the id generator has produced any number of ids before
InitEmit ==
  /\ heap \in UNION {EmitChains(n) : n \in 0..MaxPipes}
  /\ idCounter \in 0..MaxId
  /\ out = NoOut
  /\ db = NoDb
  /\ nheap = <<>>
  /\ nout = NoOperation
  /\ issued = takeIds(0, idCounter)
  /\ conn = 1
  /\ cache = NoCache

\* the statement of the query the chain ends in
PrepareLast == PrepareOf(Len(heap))

NextEmit == PrepareLast \/ ResetIds

SpecEmit == InitEmit /\ [][NextEmit]_vars

\* the statement of the last prepare, and the chain it was emitted from
Emitted == out.statement

EmittedFrom == heap[out.query].resolved.v

JustPrepared == out.op = "prepare" /\ ~out.again

\* the names the id generator can produce, as written in the SQL
ParamTokens == {":" \o "_" \o createId(n) : n \in 0..MaxId}

IsParamToken(token) == token \in ParamTokens

\* the parameters named in the SQL text, left to right, each at its first
\* occurrence
FirstOccurrences(sql) == dedupe(SelectSeq(sql, IsParamToken))

\* C9: the entries of the parameter map, in insertion order, are the
\* parameters named in the emitted SQL in the left-to-right order of their
\* first occurrence, and no two entries have the same name.
C9_ParamsInFirstUseOrder ==
  JustPrepared =>
    /\ FirstOccurrences(Emitted.sql)
         = [i \in DOMAIN Emitted.params |-> ":" \o Emitted.params[i][1]]
    /\ \A i, j \in DOMAIN Emitted.params :
          Emitted.params[i][1] = Emitted.params[j][1] => i = j

\* C9 witness: a statement was emitted whose inner SELECT names one parameter
\* and whose outer SELECT names another.
C9_Witness ==
  /\ JustPrepared
  /\ EmittedFrom.joins # <<>>
  /\ ~EmittedFrom.query.where.isNull
  /\ ~EmittedFrom.joins[1].query.where.isNull
  /\ Len(EmittedFrom.query.where.v) = 1
  /\ Len(Emitted.params) = 2

\* the conditions of the emitted chain, innermost query first
ConditionsOf(r) ==
  (IF r.query.where.isNull THEN <<>> ELSE r.query.where.v)
    \o Flatten([i \in DOMAIN r.joins |->
                  IF r.joins[i].query.where.isNull THEN <<>>
                  ELSE r.joins[i].query.where.v])

ValuesOf(conds) == {conds[i][2] : i \in DOMAIN conds}

\* the parameter tokens of the SQL text, one per condition, left to right
Uses(sql) == SelectSeq(sql, IsParamToken)

MaxQueries == 5

JoinOperators == {"Inner", "Left"}

\* table.query()
query(h, table) ==
  Append(h, [table |-> table, fromCte |-> 0, derived |-> FALSE, name |-> 0,
             joins |-> <<>>, preds |-> <<>>])

\* a clause (where, groupBy, select, having): a fresh query value with a
\* fresh id
derive(h, self, idc) ==
  Append(h, [h[self] EXCEPT !.derived = TRUE, !.name = idc])

\* innerJoin / leftJoin: one id for the alias of the joined query, one for
\* the new query
joinQuery(h, self, operator, other, idc) ==
  Append(h, [h[self] EXCEPT
               !.derived = TRUE, !.name = idc + 1,
               !.joins = Append(@, [operator |-> operator, query |-> other,
                                    alias |-> idc])])

innerJoin(h, self, other, idc) == joinQuery(h, self, "Inner", other, idc)

leftJoin(h, self, other, idc) == joinQuery(h, self, "Left", other, idc)

\* where(Expr.inSubquery(column, other)) / where(Expr.notInSubquery(...))
subqueryPredicate(h, self, negated, other, idc) ==
  Append(h, [h[self] EXCEPT
               !.derived = TRUE, !.name = idc,
               !.preds = Append(@, [negated |-> negated,
                                    column |-> Columns(h[self].table)[1],
                                    query |-> other])])

inSubquery(h, self, other, idc) == subqueryPredicate(h, self, FALSE, other, idc)

notInSubquery(h, self, other, idc) == subqueryPredicate(h, self, TRUE, other, idc)

\* queryFrom(other): a query that reads other as a CTE
queryFrom(h, other, idc) ==
  Append(h, [table |-> h[other].table, fromCte |-> other, derived |-> TRUE,
             name |-> idc, joins |-> <<>>, preds |-> <<>>])

cteName(h, q) == "cte_" \o createId(h[q].name)

aliasName(j) == "t_" \o createId(j.alias)

\* the derived queries a query refers to, in the order it names them
references(h, q) ==
  (IF h[q].fromCte # 0 THEN <<h[q].fromCte>> ELSE <<>>)
    \o Flatten([i \in DOMAIN h[q].joins |->
                  IF h[h[q].joins[i].query].derived
                    THEN <<h[q].joins[i].query>> ELSE <<>>])
    \o [i \in DOMAIN h[q].preds |-> h[q].preds[i].query]

\* collect: every reference met on the traversal, dependencies first
RECURSIVE collect(_, _)
collect(h, q) ==
  LET refs == references(h, q)
  IN Flatten([i \in DOMAIN refs |-> collect(h, refs[i]) \o <<refs[i]>>])

\* the references in the order the traversal first meets them
RECURSIVE discover(_, _)
discover(h, q) ==
  LET refs == references(h, q)
  IN Flatten([i \in DOMAIN refs |-> <<refs[i]>> \o discover(h, refs[i])])

\* the CTEs in the order they were met, without the topological sort
cteListAsMet(h, root) == dedupe(discover(h, root))

cteListPerReference(h, root) == collect(h, root)

\* the CTEs of a statement: each distinct referenced query once
cteList(h, root) == dedupe(collect(h, root))

subqueryRefInline(h, d) ==
  <<"(", "SELECT", h[d].table \o ".*", "FROM", h[d].table, ")">>

\* how a predicate names the query it tests membership in
subqueryRef(h, d) == <<cteName(h, d)>>

sourceName(h, q) ==
  IF h[q].fromCte # 0 THEN cteName(h, h[q].fromCte) ELSE h[q].table

\* the SELECT of one query
selectBody(h, q) ==
  LET src == sourceName(h, q)
      Join(j) ==
        <<IF j.operator = "Inner" THEN "INNER" ELSE "LEFT", "JOIN",
          IF h[j.query].derived THEN cteName(h, j.query) ELSE h[j.query].table,
          "AS", aliasName(j), "ON",
          dotCol(src, Columns(h[q].table)[1]), "==",
          dotCol(aliasName(j), Columns(h[j.query].table)[1])>>
      Pred(i) ==
        <<IF i = 1 THEN "WHERE" ELSE "AND",
          dotCol(src, h[q].preds[i].column),
          IF h[q].preds[i].negated THEN "NOT IN" ELSE "IN">>
          \o subqueryRef(h, h[q].preds[i].query)
  IN <<"SELECT", dotCol(src, "*"), "FROM", src>>
       \o Flatten([i \in DOMAIN h[q].joins |-> Join(h[q].joins[i])])
       \o Flatten([i \in DOMAIN h[q].preds |-> Pred(i)])

\* query.all(): WITH the CTEs, then the SELECT of the root
emit(h, root) ==
  LET ctes == cteList(h, root)
      Block(i) ==
        <<IF i = 1 THEN "WITH" ELSE ",", cteName(h, ctes[i]), "AS", "(">>
          \o selectBody(h, ctes[i]) \o <<")">>
  IN Flatten([i \in DOMAIN ctes |-> Block(i)]) \o selectBody(h, root)

NObjs == DOMAIN nheap

\* a builder call returned the heap h, having taken n ids
Built(h, n) ==
  /\ Len(nheap) < MaxQueries
  /\ idCounter + n <= MaxId
  /\ nheap' = h
  /\ idCounter' = idCounter + n
  /\ issued' = issued \o takeIds(idCounter, n)
  /\ nout' = NoOperation
  /\ UNCHANGED <<heap, out, db, conn, cache>>

Query == \E table \in {"users", "joinUsersTasks"} : Built(query(nheap, table), 0)

Derive == \E q \in NObjs : Built(derive(nheap, q, idCounter), 1)

InnerJoin ==
  \E q \in NObjs, other \in NObjs : Built(innerJoin(nheap, q, other, idCounter), 2)

LeftJoin ==
  \E q \in NObjs, other \in NObjs : Built(leftJoin(nheap, q, other, idCounter), 2)

InSubquery ==
  \E q \in NObjs, other \in NObjs :
     nheap[other].derived /\ Built(inSubquery(nheap, q, other, idCounter), 1)

NotInSubquery ==
  \E q \in NObjs, other \in NObjs :
     nheap[other].derived /\ Built(notInSubquery(nheap, q, other, idCounter), 1)

QueryFrom ==
  \E other \in NObjs :
     nheap[other].derived /\ Built(queryFrom(nheap, other, idCounter), 1)

EmitAll ==
  /\ nheap # <<>>
  /\ nout' = [root |-> Len(nheap), sql |-> emit(nheap, Len(nheap))]
  /\ UNCHANGED <<heap, idCounter, out, db, nheap, issued, conn, cache>>

InitCte ==
  /\ heap = <<>>
  /\ idCounter = 0
  /\ out = NoOut
  /\ db = NoDb
  /\ nheap = <<>>
  /\ nout = NoOperation
  /\ issued = takeIds(0, idCounter)
  /\ conn = 1
  /\ cache = NoCache

NextCte ==
  \/ Query
  \/ Derive
  \/ InnerJoin
  \/ LeftJoin
  \/ InSubquery
  \/ NotInSubquery
  \/ QueryFrom
  \/ EmitAll

SpecCte == InitCte /\ [][NextCte]_vars

\* the operation emitted last, and the queries its root refers to, directly
\* or through other queries
Sql == nout.sql

Referenced == SeqSet(collect(nheap, nout.root))

Emitting == {nout.root} \cup Referenced

Occurrences(seq, x) == Cardinality({i \in DOMAIN seq : seq[i] = x})

\* the number of places of the root query that refer to the query d
RefCount(d) ==
  LET qs == dedupe(<<nout.root>> \o collect(nheap, nout.root))
      F[i \in 0..Len(qs)] ==
        IF i = 0 THEN 0 ELSE F[i - 1] + Occurrences(references(nheap, qs[i]), d)
  IN F[Len(qs)]

Promoted(d) == \E q \in Emitting : nheap[q].fromCte = d

\* the number of WITH blocks of the query d in the SQL text
CteBlocks(d) ==
  Cardinality({i \in 1..(Len(Sql) - 2) :
                 /\ Sql[i] = cteName(nheap, d)
                 /\ Sql[i + 1] = "AS"
                 /\ Sql[i + 2] = "("})

\* the places of the SQL text where a parenthesised SELECT stands inline
InlineSelects ==
  {i \in 2..(Len(Sql) - 1) :
     Sql[i] = "(" /\ Sql[i + 1] = "SELECT" /\ Sql[i - 1] # "AS"}

\* C5 as stated: a derived query referenced twice in the root query appears
\* exactly once as a WITH CTE, and one referenced once and not promoted by
\* queryFrom appears inline and not as a CTE.
C5_InlineWhenReferencedOnce ==
  nout.root # 0 =>
    \A d \in Referenced :
       /\ RefCount(d) >= 2 => CteBlocks(d) = 1
       /\ (RefCount(d) = 1 /\ ~Promoted(d))
            => (CteBlocks(d) = 0 /\ InlineSelects # {})

\* C5 as amended: a derived query referenced in the root query, twice or
\* once, promoted or not, appears exactly once as a WITH CTE, and no SELECT
\* stands inline.
C5_CteOncePerQuery ==
  nout.root # 0 =>
    /\ \A d \in Referenced : CteBlocks(d) = 1
    /\ InlineSelects = {}

\* C5 witness: an operation was emitted for a root query that refers twice to
\* one derived query and once, without queryFrom, to another.
C5_Witness ==
  /\ nout.root # 0
  /\ \E d \in Referenced : RefCount(d) >= 2 /\ CteBlocks(d) = 1
  /\ \E d \in Referenced : RefCount(d) = 1 /\ ~Promoted(d) /\ CteBlocks(d) = 1

\* the SQL text reads column IN name (NOT IN name when negated) somewhere
ReadsPredicate(column, negated, name) ==
  \E k \in 1..(Len(Sql) - 2) :
     /\ Sql[k] = column
     /\ Sql[k + 1] = IF negated THEN "NOT IN" ELSE "IN"
     /\ Sql[k + 2] = name

\* C6: a derived query used in an inSubquery or notInSubquery predicate has
\* exactly one WITH block, the predicate reads column IN cte (NOT IN cte) with
\* the name of that block, and no IN is followed by an inline SELECT.
C6_SubqueryPredicateReadsCte ==
  nout.root # 0 =>
    /\ \A q \in Emitting : \A i \in DOMAIN nheap[q].preds :
          /\ CteBlocks(nheap[q].preds[i].query) = 1
          /\ ReadsPredicate(dotCol(sourceName(nheap, q), nheap[q].preds[i].column),
                            nheap[q].preds[i].negated,
                            cteName(nheap, nheap[q].preds[i].query))
    /\ \A k \in 1..(Len(Sql) - 1) :
          Sql[k] \in {"IN", "NOT IN"} => Sql[k + 1] # "("

\* C6 witness: an operation was emitted whose root query has an inSubquery
\* and a notInSubquery predicate.
C6_Witness ==
  /\ nout.root # 0
  /\ \E i, j \in DOMAIN nheap[nout.root].preds :
        nheap[nout.root].preds[i].negated /\ ~nheap[nout.root].preds[j].negated
  /\ \E k \in DOMAIN Sql : Sql[k] = "NOT IN"

(***************************************************************************)
(* C11: the id generator.                                                  *)
(***************************************************************************)
\* the names of the parameters of a statement, in the order they were created
ParamNames(statement) == [i \in 1..Len(statement.params) |-> statement.params[i][1]]

\* the statement was emitted right after the counter was put back to 0
EmittedFromZero(q) == IsPrepared(q) /\ heap[q].startId = 0

\* C11: no call of the id generator returns a token an earlier call of the
\* same scope returned; with the counting hook the k-th call since the last
\* reset returns id<k-1>; and an emission that starts right after a reset
\* names its parameters _id0, _id1, ... again, so that two emissions of the
\* same chain that both start at 0 carry the same names.
C11_FreshIds ==
  /\ Len(issued) = idCounter
  /\ \A i, j \in 1..Len(issued) : i # j => issued[i] # issued[j]
  /\ \A i \in 1..Len(issued) : issued[i] = "id" \o ToString(i - 1)
  /\ \A q \in Objs :
       EmittedFromZero(q)
         => \A i \in 1..Len(heap[q].preparedStatement.v.params) :
              ParamNames(heap[q].preparedStatement.v)[i] = "_id" \o ToString(i - 1)
  /\ \A x, y \in Objs :
       (/\ EmittedFromZero(x) /\ EmittedFromZero(y)
        /\ ChainOf(heap, x) = ChainOf(heap, y))
         => ParamNames(heap[x].preparedStatement.v)
              = ParamNames(heap[y].preparedStatement.v)

\* a second emission of a chain starts at 0 after a reset, two ids each
C11_Witness ==
  /\ JustPrepared
  /\ EmittedFromZero(out.query)
  /\ Len(Emitted.params) = 2
  /\ issued = <<"id0", "id1">>
  /\ \E y \in Objs :
       /\ y # out.query
       /\ EmittedFromZero(y)
       /\ ChainOf(heap, y) = ChainOf(heap, out.query)


(***************************************************************************)
(* Chains of clause setters: a caller starts from one query, calls each    *)
(* setter at most once, in an order of its choice, and asks for the        *)
(* statement of the query the last call returned.                          *)
(***************************************************************************)
MaxCalls == 4

\* the calls a caller can make on a query of the table: <<method, arguments>>
ClauseCalls(table) ==
  {<<"select", s>> : s \in SelectionInputs(table)}
    \cup {<<"where", w>> : w \in WhereInputs(table)}
    \cup {<<"limit", l>> : l \in LimitInputs}
    \cup {<<"orderBy", o>> : o \in OrderByInputs(table)}

applyCall(h, q, call) ==
  CASE call[1] = "select" -> select(h, q, call[2])
    [] call[1] = "where" -> where(h, q, call[2])
    [] call[1] = "limit" -> limit(h, q, call[2][1], call[2][2])
    [] call[1] = "orderBy" -> orderBy(h, q, call[2][1], call[2][2], call[2][3])

\* q.m1(..).m2(..)...: each call is made on the query the previous returned
RECURSIVE applyCalls(_, _, _)
applyCalls(h, q, calls) ==
  IF calls = <<>> THEN h
  ELSE applyCalls(applyCall(h, q, Head(calls)), Len(h) + 1, Tail(calls))

\* the sequences of at most MaxCalls calls that set different clauses
RECURSIVE CallSeqs(_, _)
CallSeqs(table, n) ==
  IF n = 0 THEN {<<>>}
  ELSE LET shorter == CallSeqs(table, n - 1)
       IN shorter \cup
          {Append(cs, c) : cs \in shorter, c \in ClauseCalls(table)}

DistinctClauses(calls) ==
  \A i, j \in 1..Len(calls) : i # j => calls[i][1] # calls[j][1]

\* the queries the chains start from: a table, a query with clauses of its
\* own, the end of a join chain whose parent is filtered
OrderStarts ==
  LET users == create(<<>>, "users")
      filtered == where(users, 1, <<<<"id", "a">>>>)
      joined == pipe(filtered, 2, "id", "joinUsersTasks", "user_id")
  IN {users, create(<<>>, "tasks"), filtered, joined,
      orderBy(limit(select(joined, 3, <<"user_id">>), 4, Some(1), Some(2)), 5,
              [isCol |-> TRUE, col |-> "task_id", term |-> <<"", "">>],
              NoDir, <<>>)}

InitOrder ==
  /\ heap \in OrderStarts
  /\ idCounter = 0
  /\ out = NoOut
  /\ db = NoDb
  /\ nheap = <<>>
  /\ nout = NoOperation
  /\ issued = takeIds(0, idCounter)
  /\ conn = 1
  /\ cache = NoCache

\* the caller chains the calls on the last query and prepares the result
ChainCalls ==
  /\ out.op = ""
  /\ \E calls \in {cs \in CallSeqs(TableOf(Len(heap)), MaxCalls) :
                     DistinctClauses(cs)} :
     \E h \in {applyCalls(heap, Len(heap), calls)} :
     \E p \in {Prepared(h, Len(h), idCounter)} :
       /\ p.idc <= MaxId
       /\ heap' = p.heap
       /\ idCounter' = p.idc
       /\ issued' = issued \o takeIds(idCounter, p.idc - idCounter)
       /\ out' = [NoOut EXCEPT !.op = "chain", !.recv = Len(heap),
                               !.arg = calls, !.query = Len(h),
                               !.status = "ok", !.statement = p.statement,
                               !.on = p.heap[Len(h)].preparedOn, !.at = getDb]
       /\ UNCHANGED <<db, nheap, nout, conn, cache>>

NextOrder == ChainCalls

SpecOrder == InitOrder /\ [][NextOrder]_vars

(***************************************************************************)
(* C12: the order of the calls does not matter.                            *)
(***************************************************************************)
Chained == out.op = "chain"

\* the query the chain started from, with everything it refers to
StartOfChain == SubSeq(heap, 1, out.recv)

Reordered(calls, perm) == [i \in 1..Len(calls) |-> calls[perm[i]]]

\* what the same calls emit when made in the order perm
EmittedInOrder(perm) ==
  LET h == applyCalls(StartOfChain, out.recv, Reordered(out.arg, perm))
  IN getPreparedStatement(h, Len(h), heap[out.query].startId)

\* C12: calls of select, where, limit and orderBy that set different clauses,
\* made on the same starting query in any order, give queries that emit the
\* same SQL text, the same parameters and the same resolved plan.
C12_ChainingOrderFree ==
  Chained
    => \A perm \in Permutations(1..Len(out.arg)) :
         \E e \in {EmittedInOrder(perm)} :
           /\ e.statement = out.statement
           /\ e.resolved = heap[out.query].resolved.v

\* all four setters were called on the end of a join chain with a filtered
\* parent, and the statement has parameters of both queries
C12_Witness ==
  /\ Chained
  /\ Len(out.arg) = MaxCalls
  /\ out.arg[1][1] = "limit"
  /\ out.arg[MaxCalls][1] = "select"
  /\ ~heap[out.recv].priv.parent.isNull
  /\ Len(out.statement.params) = 2


(***************************************************************************)
(* C13: the aliases of the tables of a statement.                          *)
(***************************************************************************)
\* the aliases the emitter generates, as they are written in the SQL
GeneratedAliases == {"_" \o ToString(d) : d \in 0..MaxObjs}

AllColumns == UNION {SeqSet(Columns(t)) : t \in Tables}

\* the names the caller supplies
CallerNames == Tables \cup AllColumns

\* the positions of the statement where a table is named
TableOccurrences(sql) == {i \in 1..Len(sql) : sql[i] \in Tables}

\* C13: in an emitted statement every table, the joined ones included, is
\* named with a generated alias (table AS _<depth>); no two table occurrences
\* have the same alias; no alias is a name the caller supplied; and every
\* column reference a.c is made through the alias a of a table occurrence
\* whose table has the column c (a.* through the alias of an occurrence).
C13_GeneratedAliases ==
  out.op = "prepare"
    => LET sql == out.statement.sql
           occ == TableOccurrences(sql)
       IN /\ Cardinality(occ) = Len(heap[out.query].resolved.v.joins) + 1
          /\ \A i \in occ :
               /\ i + 2 <= Len(sql)
               /\ sql[i + 1] = "AS"
               /\ sql[i + 2] \in GeneratedAliases \ CallerNames
          /\ \A i, j \in occ : i # j => sql[i + 2] # sql[j + 2]
          /\ \A k \in 1..Len(sql) :
               /\ sql[k] = "JOIN" => k + 1 \in occ
               /\ \A n \in GeneratedAliases \cup CallerNames :
                  \A c \in AllColumns \cup {"*"} :
                    sql[k] = n \o "." \o c
                      => \E i \in occ :
                           /\ sql[i + 2] = n
                           /\ c \in SeqSet(Columns(sql[i])) \cup {"*"}

\* a statement with two joins, whose three tables have three aliases
C13_Witness ==
  /\ out.op = "prepare"
  /\ Len(heap[out.query].resolved.v.joins) = 2
  /\ "_2.id" \in SeqSet(out.statement.sql)
  /\ Cardinality({out.statement.sql[i + 2] :
                    i \in TableOccurrences(out.statement.sql)}) = 3


(***************************************************************************)
(* The statements a table and a query keep, and the database they were     *)
(* prepared on.  The host can close the database; getDb then hands out the *)
(* next one.  Nothing in DatabaseTable or DatabaseTableQuery hears of it.  *)
(***************************************************************************)
MaxDbs == 2

\* getStatement(name, create): the statement kept under the name, created
\* (create calls getDb().prepare) when there is none
getStatement(c, name) ==
  IF c[name] = 0 THEN [c EXCEPT ![name] = getDb] ELSE c

\* countAll, all, findByKey, insert, deleteByKey, updateByKey of a table
TableOperation(name) ==
  /\ cache' = getStatement(cache, name)
  /\ out' = [NoOut EXCEPT !.op = name, !.status = "ok",
                          !.again = cache[name] # 0,
                          !.on = cache'[name], !.at = getDb]
  /\ UNCHANGED <<heap, idCounter, db, nheap, nout, issued, conn>>

TableOperations == \E name \in StatementNames : TableOperation(name)

\* getIndexStatement(name, create): as getStatement, in indexQueriesCache
getIndexStatement(c, name) ==
  IF c[name] = 0 THEN [c EXCEPT ![name] = getDb] ELSE c

\* findByIndex(index, value)
FindByIndex ==
  \E name \in IndexNames :
    /\ cache' = getIndexStatement(cache, name)
    /\ out' = [NoOut EXCEPT !.op = "findByIndex", !.arg = <<name>>,
                            !.status = "ok", !.again = cache[name] # 0,
                            !.on = cache'[name], !.at = getDb]
    /\ UNCHANGED <<heap, idCounter, db, nheap, nout, issued, conn>>

\* the host closes the database and opens another
CloseDb ==
  /\ conn < MaxDbs
  /\ conn' = conn + 1
  /\ UNCHANGED <<heap, idCounter, out, db, nheap, nout, issued, cache>>

CloseStarts ==
  LET users == create(<<>>, "users")
  IN {users, where(users, 1, <<<<"id", "a">>>>)}

InitClose ==
  /\ heap \in CloseStarts
  /\ idCounter = 0
  /\ out = NoOut
  /\ db = NoDb
  /\ nheap = <<>>
  /\ nout = NoOperation
  /\ issued = takeIds(0, idCounter)
  /\ conn = 1
  /\ cache = NoCache

NextClose ==
  \/ Prepare
  \/ All
  \/ TableOperations
  \/ FindByIndex
  \/ CloseDb

SpecClose == InitClose /\ [][NextClose]_vars

\* the operations that run a statement
RunsStatement ==
  out.op \in StatementNames \cup {"findByIndex", "prepare"} \cup TerminalOps

\* C14: after the database a statement was prepared on is closed and getDb
\* hands out another one, no operation of a table or of a query runs the
\* statement of the closed database: the statement an operation runs was
\* prepared on the database getDb handed out at the call.
C14_NoStatementOfClosedDb ==
  RunsStatement => out.on = out.at


(***************************************************************************)
(* C15: select replaces the selection and nothing else.                    *)
(***************************************************************************)
\* the record of a query without its selection
WithoutSelection(q) == [heap[q].priv EXCEPT !.selection = NoneSeq]

SelectedTwice ==
  /\ out.op = "select"
  /\ out'.op = "select"
  /\ out'.recv = out.query
  /\ Len(heap') = Len(heap) + 1

\* C15: the query select(b) returns has the selection b, whatever the receiver
\* selected, and the table, where, limit, orderBy and parent of the receiver;
\* after select(a).select(b) these are the ones of the query select(a) was
\* called on.
C15_SelectReplaces ==
  /\ [](out.op = "select"
          => /\ heap[out.query].priv.selection = Some(out.arg)
             /\ WithoutSelection(out.query) = WithoutSelection(out.recv))
  /\ [][SelectedTwice
          => /\ heap'[out'.query].priv.selection = Some(out'.arg)
             /\ [heap'[out'.query].priv EXCEPT !.selection = NoneSeq]
                  = WithoutSelection(out.recv)]_vars

\* select(a).select(b) with b different from a
C15_Witness ==
  /\ out.op = "select"
  /\ ~heap[out.recv].priv.selection.isNull
  /\ heap[out.recv].priv.selection.v # out.arg
  /\ heap[out.query].priv.selection.v = out.arg


(***************************************************************************)
(* C17: the order of the clauses of the outermost SELECT.                  *)
(***************************************************************************)
\* the keyword each clause starts with, in the order of the SQL grammar
ClauseKeywords ==
  <<"SELECT", "FROM", "JOIN", "WHERE", "GROUP", "HAVING", "ORDER", "LIMIT",
    "OFFSET">>

RankOf(keyword) == CHOOSE r \in DOMAIN ClauseKeywords : ClauseKeywords[r] = keyword

\* the clause keywords of the statement that are inside no parenthesis, in
\* the order they are written
TopClauses(sql) ==
  LET F[i \in 0..Len(sql)] ==
        IF i = 0 THEN [depth |-> 0, seen |-> <<>>]
        ELSE LET prev == F[i - 1]
             IN CASE sql[i] = "(" -> [prev EXCEPT !.depth = @ + 1]
                  [] sql[i] = ")" -> [prev EXCEPT !.depth = @ - 1]
                  [] sql[i] \in SeqSet(ClauseKeywords) /\ prev.depth = 0
                       -> [prev EXCEPT !.seen = Append(@, sql[i])]
                  [] OTHER -> prev
  IN F[Len(sql)].seen

\* the clauses the query the statement was emitted for has
ClausesOf(q) ==
  LET priv == heap[q].priv
  IN {"SELECT", "FROM"}
       \cup (IF ~priv.parent.isNull THEN {"JOIN"} ELSE {})
       \cup (IF ~priv.where.isNull /\ priv.where.v # <<>> THEN {"WHERE"} ELSE {})
       \cup (IF ~priv.orderBy.isNull /\ priv.orderBy.v # <<>> THEN {"ORDER"} ELSE {})
       \cup (IF ~priv.limit.isNull /\ ~priv.limit.v.limit.isNull
               THEN {"LIMIT"} ELSE {})
       \cup (IF /\ ~priv.limit.isNull /\ ~priv.limit.v.limit.isNull
                /\ ~priv.limit.v.offset.isNull
               THEN {"OFFSET"} ELSE {})

MaxResults == 3

MaxRows == 3

Obj(x) == [k |-> "obj", cols |-> <<<<"id", x>>>>, jn |-> "", items |-> <<>>]

\* what groupRows can return for one child
ShapedChildren == {Undefined, Null, Obj("a"), Obj("b")}

RECURSIVE ListsOf(_, _)
ListsOf(S, n) ==
  IF n = 0 THEN {<<>>}
  ELSE LET shorter == ListsOf(S, n - 1)
       IN shorter \cup {Append(l, x) : l \in shorter, x \in S}

\* the rows of users LEFT JOIN joinUsersTasks, cells of any content
FlatRows ==
  {("_1.id" :> u) @@ ("_1.name" :> u) @@ ("_0.user_id" :> j) @@ ("_0.task_id" :> t) :
     u \in {"a", "b", NULL}, j \in {"a", NULL}, t \in {"a", "b", NULL}}

\* users piped to joinUsersTasks, with and without selections
GroupChains ==
  {h \in ShapeChains(1) :
     /\ h[Len(h)].priv.parent.v.kind \in {"many", "one"}
     /\ \A q \in DOMAIN h : h[q].priv.where.isNull}

InitPure ==
  /\ heap \in GroupChains
  /\ idCounter = 0
  /\ out = NoOut
  /\ db = NoDb
  /\ nheap = <<>>
  /\ nout = NoOperation
  /\ issued = takeIds(0, idCounter)
  /\ conn = 1
  /\ cache = NoCache

Judged(op, arg, input, rows, r) ==
  [NoOut EXCEPT !.op = op, !.arg = arg, !.built = input, !.rows = rows,
                !.status = IF r.ok THEN "ok" ELSE "error",
                !.err = r.err, !.value = r.v]

TransformJoin ==
  /\ out.op = ""
  /\ \E results \in ListsOf(ShapedChildren, MaxResults) : \E kind \in PipeKind :
       out' = Judged("transformJoin", <<kind>>, Value(List(results)), <<>>,
                     transformJoin(results, kind))
  /\ UNCHANGED <<heap, idCounter, db, nheap, nout, issued, conn, cache>>

GroupRows ==
  /\ out.op = ""
  /\ \E rows \in ListsOf(FlatRows, MaxRows) :
     \E resolved \in {getResolved(heap, Len(heap))} :
       out' = Judged("groupRows", <<>>, Value(Undefined), rows,
                     groupRows(resolved.query, resolved.joins, rows))
  /\ UNCHANGED <<heap, idCounter, db, nheap, nout, issued, conn, cache>>

\* the terminal methods that judge the number of results
CardinalOps == {"one", "maybeOne", "first", "maybeFirst"}

\* one, maybeOne, first, maybeFirst on a query whose statement returns the
\* rows: the rows are shaped and the results judged
TerminalOnRows ==
  /\ out.op = ""
  /\ \E rows \in ListsOf(FlatRows, MaxRows) : \E op \in CardinalOps :
     \E built \in {buildResult(getResolved(heap, Len(heap)), rows)} :
       out' = [Judged(op, <<>>, built, rows,
                      IF built.ok THEN judge(op, built.v.items) ELSE built)
                 EXCEPT !.query = Len(heap)]
  /\ UNCHANGED <<heap, idCounter, db, nheap, nout, issued, conn, cache>>

NextPure == TransformJoin \/ GroupRows \/ TerminalOnRows

SpecPure == InitPure /\ [][NextPure]_vars

(***************************************************************************)
(* C19: transformJoin by kind.                                             *)
(***************************************************************************)
Transformed == out.op = "transformJoin"

\* results[0] when it is a value, null when it is undefined or null
FirstValue(results) ==
  IF results[1] \in {Undefined, Null} THEN Null ELSE results[1]

\* C19: for the list of the shaped children of one parent row, `many` returns
\* the list itself, the empty list included and never null; `maybeFirst`
\* never fails and returns null on the empty list, else the first element (or
\* null when that element is undefined); `first` fails on the empty list and
\* otherwise returns the first element; `one` fails unless the list has
\* exactly one element, which it returns; `maybeOne` fails exactly when the
\* list has more than one element, returns null on the empty list and the
\* element (or null when it is undefined) on one.
C19_TransformJoinByKind ==
  Transformed
    => LET results == out.built.v.items
           kind == out.arg[1]
           n == Len(results)
           failed == out.status = "error"
       IN /\ kind = "many" => ~failed /\ out.value = List(results)
          /\ kind = "maybeFirst"
               => /\ ~failed
                  /\ out.value = IF n = 0 THEN Null ELSE FirstValue(results)
          /\ kind = "first"
               => /\ failed <=> n = 0
                  /\ ~failed => out.value = results[1]
          /\ kind = "one"
               => /\ failed <=> n # 1
                  /\ ~failed => out.value = results[1]
          /\ kind = "maybeOne"
               => /\ failed <=> n > 1
                  /\ ~failed
                       => out.value = IF n = 0 THEN Null ELSE FirstValue(results)

\* a single join given two children fails
C19_Witness ==
  /\ Transformed
  /\ out.arg[1] = "maybeOne"
  /\ Len(out.built.v.items) = 2
  /\ out.status = "error"
  /\ out.err = "Multiple results for a single join"


(***************************************************************************)
(* C20: groupRows.                                                         *)
(***************************************************************************)
Grouped == out.op = "groupRows"

\* the chain the rows were grouped for: users, then joinUsersTasks
GroupedFor == getResolved(heap, Len(heap))

\* the cells of the primary key of the table of a level, in a flat row
KeyOf(level, row) ==
  [i \in DOMAIN level.primaryColumns |->
     row[level.tableAlias \o "." \o level.primaryColumns[i]]]

\* the distinct keys without a null cell, in order of first occurrence
DistinctKeys(level, rows) ==
  LET F[i \in 0..Len(rows)] ==
        IF i = 0 THEN <<>>
        ELSE LET key == KeyOf(level, rows[i])
             IN IF NULL \in SeqSet(key) \/ key \in SeqSet(F[i - 1])
                  THEN F[i - 1] ELSE Append(F[i - 1], key)
  IN F[Len(rows)]

\* every row of the input with the key, in the order of the input
RowsWith(level, rows, key) ==
  LET F[i \in 0..Len(rows)] ==
        IF i = 0 THEN <<>>
        ELSE IF KeyOf(level, rows[i]) = key
          THEN Append(F[i - 1], rows[i]) ELSE F[i - 1]
  IN F[Len(rows)]

\* what the join level makes of the rows of one entry
NestedOf(key) ==
  LET below == groupRows(GroupedFor.joins[1].query, <<>>,
                         RowsWith(GroupedFor.query, out.rows, key))
  IN transformJoin(below.v.items, GroupedFor.joins[1].join.kind)

\* the entry of a key: the selected columns of its first row, and the content
\* of the join level
EntryOf(key) ==
  LET level == GroupedFor.query
      first1 == RowsWith(level, out.rows, key)[1]
      nested == NestedOf(key).v
  IN IF level.columns.isNull THEN nested
     ELSE [k |-> "obj",
           cols |-> [i \in DOMAIN level.columns.v |->
                       <<level.columns.v[i],
                         first1[level.tableAlias \o "." \o level.columns.v[i]]>>],
           jn |-> IF nested.k = "undef" THEN ""
                  ELSE GroupedFor.joins[1].query.table,
           items |-> IF nested.k = "undef" THEN <<>> ELSE <<nested>>]

\* the entries of the last level for the rows of one entry of the first
LeafEntries(key) ==
  groupRows(GroupedFor.joins[1].query, <<>>,
            RowsWith(GroupedFor.query, out.rows, key)).v.items

LeafKeys(key) ==
  DistinctKeys(GroupedFor.joins[1].query,
               RowsWith(GroupedFor.query, out.rows, key))

\* C20: for any list of flat rows the output of groupRows has one entry per
\* distinct primary key of the table of the level among the rows whose key
\* cells are all non-null, in order of first occurrence of the key; the entry
\* of a key is shaped from exactly the rows of the input with that key, which
\* are the rows the next join level of the entry gets; the same holds at the
\* next level.  When the join level of an entry fails, so does the call.
C20_GroupRows ==
  Grouped
    => \E keys \in {DistinctKeys(GroupedFor.query, out.rows)} :
         IF \A i \in DOMAIN keys : NestedOf(keys[i]).ok
           THEN /\ out.status = "ok"
                /\ out.value.k = "list"
                /\ Len(out.value.items) = Len(keys)
                /\ \A i \in DOMAIN keys :
                     /\ out.value.items[i] = EntryOf(keys[i])
                     /\ Len(LeafEntries(keys[i])) = Len(LeafKeys(keys[i]))
                     /\ ~GroupedFor.joins[1].query.columns.isNull
                          => \A j \in DOMAIN LeafKeys(keys[i]) :
                               LeafEntries(keys[i])[j].cols
                                 = <<<<"task_id", LeafKeys(keys[i])[j][2]>>>>
           ELSE /\ out.status = "error"
                /\ \E i \in DOMAIN keys :
                     /\ ~NestedOf(keys[i]).ok
                     /\ out.err = NestedOf(keys[i]).err
                     /\ \A j \in 1..(i - 1) : NestedOf(keys[j]).ok

\* rows of the keys a, b, a: two entries, the first with the two rows of a
C20_Witness ==
  /\ Grouped
  /\ out.status = "ok"
  /\ Len(out.rows) = MaxRows
  /\ out.rows[1]["_1.id"] = "a"
  /\ out.rows[2]["_1.id"] = "b"
  /\ out.rows[3]["_1.id"] = "a"
  /\ Len(out.value.items) = 2
  /\ GroupedFor.joins[1].join.kind = "many"
  /\ ~GroupedFor.query.columns.isNull
  /\ Len(out.value.items[1].items[1].items) = 2


(***************************************************************************)
(* C18: the order of the CTEs of a statement.                              *)
(***************************************************************************)
\* where the WITH block of the query d starts in the SQL text
BlockAt(d) ==
  CHOOSE i \in 1..(Len(Sql) - 2) :
    Sql[i] = cteName(nheap, d) /\ Sql[i + 1] = "AS" /\ Sql[i + 2] = "("

\* d refers to e, directly or through other queries
Reaches(d, e) == e \in SeqSet(discover(nheap, d))

\* the place of d in the list of the queries the traversal of the root met
MetAt(d) ==
  LET met == dedupe(discover(nheap, nout.root))
  IN CHOOSE i \in DOMAIN met : met[i] = d

\* C18: in the WITH prefix every referenced query has exactly one block, the
\* block of a query that refers to another CTE stands after the block of the
\* one it refers to, and the blocks of two queries neither of which refers to
\* the other stand in the order the traversal first met the queries.
C18_CteTopologicalOrder ==
  nout.root # 0 =>
    /\ \A d \in Referenced : CteBlocks(d) = 1
    /\ \A d \in Referenced :
         \A e \in SeqSet(references(nheap, d)) : BlockAt(e) < BlockAt(d)
    /\ \A d, e \in Referenced :
         (/\ ~Reaches(d, e) /\ ~Reaches(e, d)
          /\ MetAt(d) < MetAt(e))
           => BlockAt(d) < BlockAt(e)

\* the root names B before A and B refers to A: the block of A stands first
C18_Witness ==
  /\ nout.root # 0
  /\ \E a, b \in Referenced :
       /\ MetAt(b) < MetAt(a)
       /\ a \in SeqSet(references(nheap, b))
       /\ BlockAt(a) < BlockAt(b)
       /\ Occurrences(references(nheap, nout.root), a) = 1


(***************************************************************************)
(* C21: what the terminal methods count.                                   *)
(***************************************************************************)
Judging == out.op \in CardinalOps

\* the number of distinct complete primary keys of the root table among the
\* rows the driver returned
RootKeyCount == Len(DistinctKeys(GroupedFor.query, out.rows))

\* C21: one, maybeOne, first and maybeFirst judge the number of distinct
\* non-null primary keys of the root table among the driver rows, not the
\* number of driver rows: when the rows could be shaped, one fails exactly
\* when that number is not 1, maybeOne exactly when it is more than 1, first
\* exactly when it is 0, and maybeFirst never; the number of shaped results
\* is that number.
C21_CardinalityOfShapedResults ==
  (Judging /\ out.built.ok)
    => /\ Len(Results) = RootKeyCount
       /\ out.op = "one" => (Failed <=> RootKeyCount # 1)
       /\ out.op = "maybeOne" => (Failed <=> RootKeyCount > 1)
       /\ out.op = "first" => (Failed <=> RootKeyCount = 0)
       /\ out.op = "maybeFirst" => ~Failed

\* three driver rows, two of one user with different tasks and one with a
\* null root key: one() returns the single result
C21_Witness ==
  /\ Judging
  /\ out.op = "one"
  /\ out.status = "ok"
  /\ Len(out.rows) = 3
  /\ out.rows[1]["_1.id"] = "a"
  /\ out.rows[2]["_1.id"] = "a"
  /\ out.rows[1]["_0.task_id"] # out.rows[2]["_0.task_id"]
  /\ out.rows[3]["_1.id"] = NULL
  /\ RootKeyCount = 1


(***************************************************************************)
(* C22: the lazy caches.                                                   *)
(***************************************************************************)
\* the name the statement of the call is kept under
KeptUnder(o) == IF o.op = "findByIndex" THEN o.arg[1] ELSE o.op

CalledTable(o) == o.op \in StatementNames \cup {"findByIndex"}

CalledQuery(o) == o.op \in {"prepare"} \cup TerminalOps

\* C22: a statement a DatabaseTable keeps under a name (the six named ones
\* and the one of each index) is never replaced once it was created, and a
\* call that finds it uses it without creating another; a DatabaseTableQuery
\* that has resolved its chain and prepared its statement keeps the resolved
\* chain, the statement and its bound parameters through every later call,
\* which returns that statement and asks the id generator for nothing.
C22_PreparedAtMostOnce ==
  /\ [][\A name \in DOMAIN cache : cache[name] # 0 => cache'[name] = cache[name]]_vars
  /\ [][(CalledTable(out') /\ cache' # cache)
          => /\ cache[KeptUnder(out')] = 0
             /\ \A name \in DOMAIN cache :
                  name # KeptUnder(out') => cache'[name] = cache[name]]_vars
  /\ [](CalledTable(out) => out.on = cache[KeptUnder(out)])
  /\ [][\A q \in DOMAIN heap :
          IsPrepared(q)
            => /\ heap'[q] = heap[q]
               /\ (CalledQuery(out') /\ out'.query = q /\ out' # out)
                    => /\ out'.statement = heap[q].preparedStatement.v
                       /\ out'.on = heap[q].preparedOn
                       /\ idCounter' = idCounter]_vars

\* after the database was closed and another opened, a second countAll and
\* a second all() of a query with parameters found their statements
C22_Witness ==
  /\ conn = 2
  /\ cache["countAll"] = 1
  /\ cache["byName"] = 1
  /\ out.op = "all"
  /\ out.at = 2
  /\ out.on = 1
  /\ out.statement.params # <<>>


(***************************************************************************)
(* C23: LIMIT and OFFSET.                                                  *)
(***************************************************************************)
\* the tokens of the statement that are inside no parenthesis
TopTokens(sql) ==
  LET F[i \in 0..Len(sql)] ==
        IF i = 0 THEN [depth |-> 0, seen |-> <<>>]
        ELSE LET prev == F[i - 1]
             IN CASE sql[i] = "(" -> [prev EXCEPT !.depth = @ + 1]
                  [] sql[i] = ")" -> [prev EXCEPT !.depth = @ - 1]
                  [] prev.depth = 0 -> [prev EXCEPT !.seen = Append(@, sql[i])]
                  [] OTHER -> prev
  IN F[Len(sql)].seen

\* the last n tokens of a sequence
LastTokens(seq, n) == SubSeq(seq, Len(seq) - n + 1, Len(seq))

\* the arguments of the call of limit in the chain, when there is one
LimitCalls == {i \in DOMAIN out.arg : out.arg[i][1] = "limit"}

\* C23: the statement of a query limit was called on has an OFFSET only
\* together with a LIMIT: after limit(null, m) it has neither LIMIT nor
\* OFFSET, after limit(n) it ends with LIMIT n and has no OFFSET, after
\* limit(n, m) it ends with LIMIT n OFFSET m.
C23_OffsetOnlyWithLimit ==
  (Chained /\ LimitCalls # {})
    => \E top \in {TopTokens(out.statement.sql)} :
       \E call \in {out.arg[i][2] : i \in LimitCalls} :
         /\ call[1].isNull
              => "LIMIT" \notin SeqSet(top) /\ "OFFSET" \notin SeqSet(top)
         /\ (~call[1].isNull /\ call[2].isNull)
              => /\ LastTokens(top, 2) = <<"LIMIT", ToString(call[1].v)>>
                 /\ "OFFSET" \notin SeqSet(top)
         /\ (~call[1].isNull /\ ~call[2].isNull)
              => LastTokens(top, 4)
                   = <<"LIMIT", ToString(call[1].v), "OFFSET", ToString(call[2].v)>>

\* limit(null, 2) on a query that had LIMIT 1 OFFSET 2: both are gone
C23_Witness ==
  /\ Chained
  /\ \E i \in LimitCalls : out.arg[i][2] = <<NoneInt, Some(2)>>
  /\ ~heap[out.recv].priv.limit.isNull
  /\ ~heap[out.recv].priv.limit.v.limit.isNull
  /\ "LIMIT" \notin SeqSet(TopTokens(out.statement.sql))
  /\ "OFFSET" \notin SeqSet(TopTokens(out.statement.sql))


(***************************************************************************)
(* The rows of a DatabaseTable: one row per stored value, with the columns *)
(* key, data and one column per index (here the index byName).  The values *)
(* stored are records with an id and a name; keyFn takes the id, the index *)
(* byName takes the name.                                                  *)
(***************************************************************************)
TableKeys == {"k1", "k2", "k3"}

TableNames == {"x", "y"}

TableData == [id : TableKeys, name : TableNames]

\* tableConfig.keyFn
keyFn(data) == data.id

\* JSON.stringify(schema.sanitize(data)): the text of the value
stringify(data) == <<"{", "id", ":", data.id, ",", "name", ":", data.name, "}">>

\* prepareData(data): the key, the serialized key (a text is bound as it
\* is), the text of the data and one serialized value per index
prepareData(data) ==
  [key |-> keyFn(data), serailizedKey |-> keyFn(data),
   data |-> stringify(data), indexes |-> <<data.name>>]

\* the row the parameters of prepareData fill: key = ?, data = ?, byName = ?
RowOf(prepared) ==
  ("key" :> prepared.serailizedKey) @@ ("data" :> prepared.data)
    @@ ("byName" :> prepared.indexes[1])

\* UPDATE table SET key = ?, data = ?, byName = ? without its WHERE
getUpdateByKeyQueryNoWhere(rows, prepared, serializedKey) ==
  [i \in DOMAIN rows |-> RowOf(prepared)]

\* UPDATE table SET key = ?, data = ?, byName = ? WHERE key = :key
getUpdateByKeyQuery(rows, prepared, serializedKey) ==
  [i \in DOMAIN rows |->
     IF rows[i]["key"] = serializedKey THEN RowOf(prepared) ELSE rows[i]]

\* DELETE FROM table WHERE key = ?
getDeleteByKeyQuery(rows, serializedKey) ==
  SelectSeq(rows, LAMBDA r : r["key"] # serializedKey)

\* INSERT INTO table (key, data, byName) VALUES (?, ?, ?)
getInsertQuery(rows, prepared) == Append(rows, RowOf(prepared))

\* what run() of a statement can do with the rows it would write: the table
\* definition is the database's, so a write that leaves two rows with one
\* key is either carried out or refused with a constraint error, and a write
\* that leaves no two such rows is carried out
RunOutcomes(rows, written) ==
  IF \E i, j \in DOMAIN written :
       /\ i # j
       /\ written[i]["key"] = written[j]["key"]
       /\ written # rows
  THEN {[status |-> "ok", rows |-> written],
        [status |-> "error", rows |-> rows]}
  ELSE {[status |-> "ok", rows |-> written]}

\* the record of one operation of the table: the rows before it in rows
RanOnTable(op, arg, r, value) ==
  [NoOut EXCEPT !.op = op, !.arg = arg, !.rows = db["users"],
                !.status = r.status,
                !.err = IF r.status = "ok" THEN "" ELSE "constraint",
                !.value = value,
                !.again = cache[op] # 0, !.on = getStatement(cache, op)[op],
                !.at = getDb]

InitTable ==
  /\ heap = <<>>
  /\ idCounter = 0
  /\ out = NoOut
  /\ db = NoDb
  /\ nheap = <<>>
  /\ nout = NoOperation
  /\ issued = takeIds(0, idCounter)
  /\ conn = 1
  /\ cache = NoCache

\* insertInternal(data)
InsertInternal ==
  /\ Len(db["users"]) < MaxRows
  /\ \E data \in TableData :
     \E r \in RunOutcomes(db["users"],
                          getInsertQuery(db["users"], prepareData(data))) :
       /\ db' = [db EXCEPT !["users"] = r.rows]
       /\ out' = RanOnTable("insert", <<data>>, r,
                     IF r.status = "ok" THEN prepareData(data).key ELSE Undefined)
  /\ cache' = getStatement(cache, "insert")
  /\ UNCHANGED <<heap, idCounter, nheap, nout, issued, conn>>

\* deleteByKey(key)
DeleteByKey ==
  /\ \E key \in TableKeys :
       /\ db' = [db EXCEPT !["users"] = getDeleteByKeyQuery(@, key)]
       /\ out' = RanOnTable("deleteByKey", <<key>>, [status |-> "ok"], Undefined)
  /\ cache' = getStatement(cache, "deleteByKey")
  /\ UNCHANGED <<heap, idCounter, nheap, nout, issued, conn>>

\* updateByKey(key, data)
UpdateByKey ==
  /\ \E key \in TableKeys : \E data \in TableData :
     \E prepared \in {prepareData(data)} :
     \E r \in RunOutcomes(db["users"],
                          getUpdateByKeyQuery(db["users"], prepared, key)) :
       /\ db' = [db EXCEPT !["users"] = r.rows]
       /\ out' = RanOnTable("updateByKey", <<key, data>>, r,
                     IF r.status = "ok" THEN prepared.key ELSE Undefined)
  /\ cache' = getStatement(cache, "updateByKey")
  /\ UNCHANGED <<heap, idCounter, nheap, nout, issued, conn>>

NextTable == InsertInternal \/ DeleteByKey \/ UpdateByKey

SpecTable == InitTable /\ [][NextTable]_vars


(***************************************************************************)
(* C24: updateByKey.                                                       *)
(***************************************************************************)
\* the rows of the table before the call that hold the key
RowsUnder(key) == {i \in DOMAIN out.rows : out.rows[i]["key"] = key}

\* C24: after updateByKey(key, data) the table has the rows it had, every
\* row that was not stored under key is as it was, and when the call
\* returns, each row that was stored under key has the key keyFn(data), the
\* text of data and the index values of data, and updatedKey is keyFn(data);
\* when no row was stored under key the table is as it was.  A call the
\* database refuses leaves the table as it was.
C24_UpdateByKeyFrame ==
  out.op = "updateByKey"
    => \E key \in {out.arg[1]} : \E data \in {out.arg[2]} :
       \E before \in {out.rows} : \E after \in {db["users"]} :
         /\ Len(after) = Len(before)
         /\ \A i \in DOMAIN before \ RowsUnder(key) : after[i] = before[i]
         /\ out.status = "ok"
              => /\ \A i \in RowsUnder(key) :
                      /\ after[i]["key"] = keyFn(data)
                      /\ after[i]["data"] = stringify(data)
                      /\ after[i]["byName"] = data.name
                 /\ out.value = keyFn(data)
         /\ out.status # "ok" => after = before
         /\ RowsUnder(key) = {} => after = before /\ out.status = "ok"

\* a table of two rows, whose second row, stored under k1, was rewritten
\* to the key k3 and another name, the first row being as it was
C24_Witness ==
  /\ out.op = "updateByKey"
  /\ out.status = "ok"
  /\ out.arg[1] = "k1"
  /\ keyFn(out.arg[2]) = "k3"
  /\ Len(out.rows) = 2
  /\ out.rows[1]["key"] = "k2"
  /\ out.rows[2]["key"] = "k1"
  /\ out.rows[2]["byName"] # out.arg[2].name
  /\ db["users"][2]["key"] = "k3"
  /\ db["users"][1] = out.rows[1]
  /\ out.value = "k3"

====
